---- MODULE Spec2Model ----
(***************************************************************************)
(* word-salat: the scrambler of src/src/core.py and the scoring engine of   *)
(* src/src/scoring.py as a state machine, and the functions of the older   *)
(* module src/word_salat.py beside them.                                   *)
(*                                                                         *)
(* Strings are sequences of code points.  Indices, spans and slices keep   *)
(* Python's 0-based, half-open convention; At and Slice translate to the   *)
(* 1-based sequences of TLA+.                                              *)
(*                                                                         *)
(* random.Random is the one collaborator that is not part of the           *)
(* repository.  It is modelled as a deterministic generator whose state    *)
(* is a natural number: a draw reads the lowest digit (radix RngRadix) of  *)
(* the state and shifts the state one digit down.  Seeding with s gives    *)
(* the state s, seeding with None gives an arbitrary state.                *)
(*                                                                         *)
(* The scores are Python floats computed as quotients of small integers.   *)
(* A score is modelled as the exact quotient, a pair <<n, d>> in lowest    *)
(* terms; 1.0 is <<1, 1>> and 0.0 is <<0, 1>>.  Where the two modules are  *)
(* compared, the quotients are rounded to IEEE doubles and the sums of     *)
(* floats are rounded as the interpreter rounds them.  The file system is  *)
(* the original file, the directory of decoded files and the results file. *)
(***************************************************************************)
EXTENDS Integers, Sequences, FiniteSets, TLC

\* ------------------------------------------------------------- constants

\* Mutant: one attempt more.
MAX_SHUFFLE_ATTEMPTS_nine == 8 + 1

MAX_SHUFFLE_ATTEMPTS == 8

\* Python's None, for an absent rng or seed.
None == -1

\* name=None
NoName == <<None>>

\* A path of the file system: a missing one, or a file with its content.
Missing == [exists |-> FALSE, is_dir |-> FALSE, content |-> <<>>]
File(content) == [exists |-> TRUE, is_dir |-> FALSE, content |-> content]

\* ------------------------------------------------------------------- state

VARIABLES
    pc,              \* "idle", "segments", "loop", "done"
    entry,           \* the function the caller invoked
    text, seed,      \* scramble_text's arguments
    last_index,      \* _scramble_segments
    span,            \* match.span() of the word being scrambled
    segs,            \* the segments yielded so far, with the spans they were cut at
    word,            \* scramble_word's argument
    chars, indices,  \* _attempt_shuffle's arguments; chars is mutated in place
    list0,           \* chars as it was passed to _attempt_shuffle
    original_chars, subset,
    attempt,         \* iterations of the loop started
    rng,             \* the generator's state, None while there is no generator
    rng0,            \* the generator's state when the function was entered
    shuffles,        \* calls of rng.shuffle since the function was entered
    result,          \* the value returned
    earlier,         \* what the caller has kept of the earlier calls
    original, decoded,                \* the texts handed to the scoring call
    ignore_case, collapse_whitespace, \* its normalization flags
    method, name,                     \* its method string and its name argument
    returned,        \* the value the scoring call returned, None before
    raised,          \* the exception the call raised, "none" when it did not
    original_file,   \* the original file's text, None when the file is missing
    decoded_dir,     \* file name -> text, None when the path is no directory
    log_results,     \* batch_evaluate's argument
    output_format,   \* generate_leaderboard's argument
    queue,           \* the decoded files batch_evaluate has yet to score
    results,         \* the results batch_evaluate has collected
    results_file,    \* the results file: Missing, or its lines
    results_file0,   \* the results file as the call found it
    logged,          \* the results whose rows were written, in that order
    log_pc,          \* where each concurrent _log_decoding_score stands
    log_result,      \* the result each of them logs
    log_lines,       \* the lines each of them has read
    legacy           \* what the same call of the module word_salat gave

\* What the scrambler works on, and what the scoring engine works on.
scrambleVars == <<text, seed, last_index, span, segs, word, chars, indices,
                  list0, original_chars, subset, attempt, rng, rng0, shuffles,
                  result, earlier>>

scoreVars == <<original, decoded, ignore_case, collapse_whitespace, method, name,
               returned, raised, original_file, decoded_dir, log_results,
               output_format, queue,
               results, results_file, results_file0, logged, log_pc,
               log_result, log_lines, legacy>>

vars == <<pc, entry, scrambleVars, scoreVars>>

\* ---------------------------------------------------------------- bounds

MaxTextLen == 6
MaxWordLen == 6
MaxListLen == 3
MaxSeed == 15
RngRadix == 4
MaxScoreLen == 2
MaxWords == 3
MaxAppends == 3
MaxBoard == 3
MaxThreadWords == 2

\* The characters of the texts: the letters a and b, and U+00D7 (the
\* multiplication sign, which the letter ranges leave out).
TextChars == {97, 98, 215}

\* The characters of the words handed to scramble_word and _attempt_shuffle
\* directly: a, b and U+00E9.
WordChars == {97, 98, 233}

StringsOver(S, n) == UNION {[1..k -> S] : k \in 0..n}

Texts == StringsOver(TextChars, MaxTextLen)
Words == StringsOver(WordChars, MaxWordLen)
Lists == StringsOver(WordChars, MaxListLen)
RngStates == 0..MaxSeed

\* ------------------------------------------------------ strings and lists

At(s, i) == s[i + 1]

Slice(s, a, b) == SubSeq(s, a + 1, b)

Range(a, b) == [k \in 1..(IF b > a THEN b - a ELSE 0) |-> a + k - 1]

Elems(s) == {s[k] : k \in 1..Len(s)}

\* ------------------------------------------------------------ WORD_PATTERN

\* Mutant: one range U+00C0-U+00FF, which takes in U+00D7 and U+00F7.
IsLetter_noGap(c) ==
    \/ c >= 65 /\ c <= 90
    \/ c >= 97 /\ c <= 122
    \/ c >= 192 /\ c <= 255

IsLetter(c) ==
    \/ c >= 65 /\ c <= 90
    \/ c >= 97 /\ c <= 122
    \/ c >= 192 /\ c <= 214
    \/ c >= 216 /\ c <= 246
    \/ c >= 248 /\ c <= 255

RECURSIVE SkipWhile(_, _, _)
\* The first index >= p of t whose character is a letter iff `letter` is
\* FALSE, or len(t).
SkipWhile(t, p, letter) ==
    IF p < Len(t) /\ (IsLetter(At(t, p)) <=> letter)
    THEN SkipWhile(t, p + 1, letter)
    ELSE p

\* The span of the next match of WORD_PATTERN at or after p: the leftmost
\* letter and the greedy run from it.  <<None, None>> when there is none.
\* Mutant: the pattern has lost its "+", a match is one letter.
NextMatch_single(t, p) ==
    LET start == SkipWhile(t, p, FALSE)
    IN  IF start >= Len(t)
        THEN <<None, None>>
        ELSE <<start, start + 1>>

NextMatch(t, p) ==
    LET start == SkipWhile(t, p, FALSE)
    IN  IF start >= Len(t)
        THEN <<None, None>>
        ELSE <<start, SkipWhile(t, start, TRUE)>>

\* ---------------------------------------------------------- random.Random

\* Mutant: one generator for the module, seeded by the first call only.
Random_shared(s) == IF rng = None THEN s ELSE rng

Random(s) == s

\* A draw below n: the lowest digit of the state decides the value, and the
\* state moves one digit down.  Digit 0 maps to n - 1, the draw that makes
\* Fisher-Yates leave position n - 1 alone, so the state 0 stands for the
\* generator whose shuffles all give the list back, and the states above
\* it for the generators that do so a few times and then stop doing it.
RandBelow(r, n) ==
    [val |-> (n - 1) - ((r % RngRadix) % n), rng |-> r \div RngRadix]

Swap(x, i, j) == [x EXCEPT ![i + 1] = x[j + 1], ![j + 1] = x[i + 1]]

RECURSIVE ShuffleFrom(_, _, _)
ShuffleFrom(x, i, r) ==
    IF i < 1
    THEN [list |-> x, rng |-> r]
    ELSE LET d == RandBelow(r, i + 1)
         IN  ShuffleFrom(Swap(x, i, d.val), i - 1, d.rng)

\* rng.shuffle(x): Fisher-Yates from the last index down to 1.
Shuffle(x, r) == ShuffleFrom(x, Len(x) - 1, r)

\* ---------------------------------------------------------- _attempt_shuffle

Subset(c, idx) == [k \in 1..Len(idx) |-> At(c, idx[k])]

RECURSIVE Assign_byPosition(_, _, _, _)
\* Mutant: candidate[k] = value, with k the position in the index list.
Assign_byPosition(c, idx, vals, k) ==
    IF k > Len(idx) \/ k > Len(vals)
    THEN c
    ELSE Assign_byPosition([c EXCEPT ![k] = vals[k]], idx, vals, k + 1)

RECURSIVE Assign(_, _, _, _)
\* for idx, value in zip(indices, randomized): candidate[idx] = value
Assign(c, idx, vals, k) ==
    IF k > Len(idx) \/ k > Len(vals)
    THEN c
    ELSE Assign([c EXCEPT ![idx[k] + 1] = vals[k]], idx, vals, k + 1)

\* Mutant: the test for identical characters is missing.
ReturnsEarly_lengthOnly(c, idx) == Len(idx) <= 1

\* Whether _attempt_shuffle returns before its loop.
ReturnsEarly(c, idx) ==
    \/ Len(idx) <= 1
    \/ Cardinality(Elems(Subset(c, idx))) <= 1

\* ------------------------------------------------------------ scramble_word

\* Mutant: the range starts at 0, so the first character is shuffled too.
MutableIndices_fromZero(w) ==
    LET all == Range(0, Len(w) - 1)
        middle_index == Len(w) \div 2
    IN  IF Len(w) % 2 = 1
        THEN SelectSeq(all, LAMBDA i : i # middle_index)
        ELSE all

\* Mutant: the middle index of an odd-length word is not removed.
MutableIndices_keepsMiddle(w) == Range(1, Len(w) - 1)

MutableIndices(w) ==
    LET all == Range(1, Len(w) - 1)
        middle_index == Len(w) \div 2
    IN  IF Len(w) % 2 = 1
        THEN SelectSeq(all, LAMBDA i : i # middle_index)
        ELSE all

\* ------------------------------------------------------------ the start

NoSpan == <<None, None>>

InitScrambler ==
    /\ pc = "idle"
    /\ entry = "none"
    /\ text = <<>>
    /\ seed = None
    /\ last_index = 0
    /\ span = NoSpan
    /\ segs = <<>>
    /\ word = <<>>
    /\ chars = <<>>
    /\ indices = <<>>
    /\ list0 = <<>>
    /\ original_chars = <<>>
    /\ subset = <<>>
    /\ attempt = 0
    /\ rng = None
    /\ rng0 = None
    /\ shuffles = 0
    /\ result = <<>>
    /\ earlier = {}

\* Two invocations can log at the same time.
Procs == {1, 2}

\* The module word_salat has not been called.
NoLegacy ==
    [raised |-> "uncalled", value |-> None, rng |-> None, compensated |-> FALSE]

\* No row has been written and no invocation is logging.
InitLog ==
    /\ logged = <<>>
    /\ log_pc = [p \in Procs |-> "idle"]
    /\ log_result = [p \in Procs |-> None]
    /\ log_lines = [p \in Procs |-> <<>>]
    /\ legacy = NoLegacy

InitScoring ==
    /\ InitLog
    /\ original = <<>>
    /\ decoded = <<>>
    /\ ignore_case = TRUE
    /\ collapse_whitespace = TRUE
    /\ method = <<>>
    /\ name = NoName
    /\ returned = None
    /\ raised = "none"
    /\ original_file = Missing
    /\ decoded_dir = Missing
    /\ log_results = TRUE
    /\ output_format = "markdown"
    /\ queue = <<>>
    /\ results = <<>>
    /\ results_file = Missing
    /\ results_file0 = Missing

Init == InitScrambler /\ InitScoring

\* Every call starts from the idle state: a call reads nothing an earlier
\* call has left behind, except through ScrambleTextAgain below.
Callable == pc = "idle"

\* ------------------------------------------------------------- the returns

RECURSIVE Join(_)
\* "".join(segments)
Join(sg) == IF sg = <<>> THEN <<>> ELSE sg[1].str \o Join(Tail(sg))

Segment(a, b, isWord, s) == [start |-> a, end |-> b, word |-> isWord, str |-> s]

\* scramble_word returns w to its caller.  Under scramble_text the caller is
\* the loop of _scramble_segments, which yields w and moves last_index to
\* the end of the match; sg holds the segments yielded before w and sp the
\* span of the match.
WordReturns(e, sg, sp, w) ==
    /\ span' = sp
    /\ IF e = "scramble_text"
       THEN /\ segs' = Append(sg, Segment(sp[1], sp[2], TRUE, w))
            /\ last_index' = sp[2]
            /\ pc' = "segments"
            /\ result' = result
       ELSE /\ segs' = sg
            /\ last_index' = last_index
            /\ pc' = "done"
            /\ result' = w

\* ------------------------------------------------------------- the entries

\* _attempt_shuffle(c, idx, rng) up to its loop: the two early returns, the
\* copy of the list and the subset.  The locals stay empty when the function
\* returns before assigning them.
EnterShuffle(e, sg, sp, c, idx) ==
    /\ chars' = c
    /\ list0' = c
    /\ indices' = idx
    /\ attempt' = 0
    /\ original_chars' = IF Len(idx) <= 1 THEN <<>> ELSE c
    /\ subset' = IF Len(idx) <= 1 THEN <<>> ELSE Subset(c, idx)
    /\ IF ReturnsEarly(c, idx)
       THEN WordReturns(e, sg, sp, c)
       ELSE /\ pc' = "loop"
            /\ segs' = sg
            /\ span' = sp
            /\ UNCHANGED <<last_index, result>>

\* Mutant: a word of three characters or fewer comes back as the empty string.
EnterWord_shortEmpty(e, sg, sp, w) ==
    /\ word' = w
    /\ IF Len(w) <= 3
       THEN /\ WordReturns(e, sg, sp, <<>>)
            /\ chars' = <<>>
            /\ list0' = <<>>
            /\ indices' = <<>>
            /\ original_chars' = <<>>
            /\ subset' = <<>>
            /\ attempt' = 0
       ELSE EnterShuffle(e, sg, sp, w, MutableIndices(w))

\* scramble_word(w, rng) up to the loop of _attempt_shuffle.
EnterWord(e, sg, sp, w) ==
    /\ word' = w
    /\ IF Len(w) <= 3
       THEN /\ WordReturns(e, sg, sp, w)
            /\ chars' = <<>>
            /\ list0' = <<>>
            /\ indices' = <<>>
            /\ original_chars' = <<>>
            /\ subset' = <<>>
            /\ attempt' = 0
       ELSE EnterShuffle(e, sg, sp, w, MutableIndices(w))

\* The generator scramble_word works with: the one passed, or a fresh unseeded
\* one, created only once the word is known to be longer than three.
WordRngs(w, r) ==
    IF r # None THEN {r}
    ELSE IF Len(w) <= 3 THEN {None}
    ELSE RngStates

\* A direct call of scramble_word(w, r); r is None when no rng is passed.
ScrambleWord(w, r) ==
    /\ Callable
    /\ entry' = "scramble_word"
    /\ \E g \in WordRngs(w, r) : rng' = g /\ rng0' = g
    /\ shuffles' = 0
    /\ text' = <<>>
    /\ seed' = None
    /\ earlier' = {}
    /\ last_index' = 0
    /\ EnterWord("scramble_word", <<>>, NoSpan, w)

\* A direct call of _attempt_shuffle(c, idx, r).
AttemptShuffle(c, idx, r) ==
    /\ Callable
    /\ entry' = "_attempt_shuffle"
    /\ rng' = r
    /\ rng0' = r
    /\ shuffles' = 0
    /\ text' = <<>>
    /\ seed' = None
    /\ earlier' = {}
    /\ last_index' = 0
    /\ word' = <<>>
    /\ EnterShuffle("_attempt_shuffle", <<>>, NoSpan, c, idx)

\* The generators random.Random(s) can be.
SeedRngs(s) == IF s = None THEN RngStates ELSE {Random(s)}

\* scramble_text(t, s) up to the first step of the generator it joins.
StartText(t, s, before) ==
    /\ entry' = "scramble_text"
    /\ text' = t
    /\ seed' = s
    /\ \E g \in SeedRngs(s) : rng' = g /\ rng0' = g
    /\ shuffles' = 0
    /\ earlier' = before
    /\ last_index' = 0
    /\ span' = NoSpan
    /\ segs' = <<>>
    /\ result' = <<>>
    /\ word' = <<>>
    /\ chars' = <<>>
    /\ list0' = <<>>
    /\ indices' = <<>>
    /\ original_chars' = <<>>
    /\ subset' = <<>>
    /\ attempt' = 0
    /\ pc' = "segments"

ScrambleText(t, s) == Callable /\ StartText(t, s, {})

\* The caller calls scramble_text again with the arguments of the call that
\* has just returned.
ScrambleTextAgain ==
    /\ pc = "done"
    /\ entry = "scramble_text"
    /\ StartText(text, seed, earlier \cup {result})
    /\ UNCHANGED scoreVars

\* ------------------------------------------------------ _scramble_segments

\* Mutant: the text between the matches is not yielded.
YieldLiteral_dropped(sg, t, a, b) == sg

\* if b > a: yield text[a:b]
YieldLiteral(sg, t, a, b) ==
    IF b > a THEN Append(sg, Segment(a, b, FALSE, Slice(t, a, b))) ELSE sg

\* Mutant: every word is scrambled with a generator made anew from the seed.
ScrambleSegment_reseeded ==
    /\ pc = "segments"
    /\ NextMatch(text, last_index) # NoSpan
    /\ LET m == NextMatch(text, last_index)
           sg == YieldLiteral(segs, text, last_index, m[1])
       IN  EnterWord("scramble_text", sg, m, Slice(text, m[1], m[2]))
    /\ rng' = Random(seed)
    /\ UNCHANGED <<entry, text, seed, rng0, shuffles, earlier>>
    /\ UNCHANGED scoreVars

\* One iteration of the loop over WORD_PATTERN.finditer(text): the literal
\* before the match, if any, then the call of scramble_word on the match.
ScrambleSegment ==
    /\ pc = "segments"
    /\ NextMatch(text, last_index) # NoSpan
    /\ LET m == NextMatch(text, last_index)
           sg == YieldLiteral(segs, text, last_index, m[1])
       IN  EnterWord("scramble_text", sg, m, Slice(text, m[1], m[2]))
    /\ UNCHANGED <<entry, text, seed, rng, rng0, shuffles, earlier>>
    /\ UNCHANGED scoreVars

\* The matches are exhausted: the trailing literal, if any, and the join.
Finish ==
    /\ pc = "segments"
    /\ NextMatch(text, last_index) = NoSpan
    /\ LET sg == YieldLiteral(segs, text, last_index, Len(text))
       IN  /\ segs' = sg
           /\ result' = Join(sg)
    /\ pc' = "done"
    /\ UNCHANGED <<entry, text, seed, last_index, span, word, chars, indices,
                   list0, original_chars, subset, attempt, rng, rng0, shuffles, earlier>>
    /\ UNCHANGED scoreVars

\* ------------------------------------------------- the loop of _attempt_shuffle

\* One iteration: shuffle a copy of the subset, write it over a copy of the
\* original, and return the candidate if it differs from the original.
ShuffleAttempt ==
    /\ pc = "loop"
    /\ attempt < MAX_SHUFFLE_ATTEMPTS
    /\ LET sh == Shuffle(subset, rng)
           candidate == Assign(original_chars, indices, sh.list, 1)
       IN  /\ rng' = sh.rng
           /\ shuffles' = shuffles + 1
           /\ attempt' = attempt + 1
           /\ IF candidate # original_chars
              THEN /\ chars' = candidate
                   /\ WordReturns(entry, segs, span, candidate)
              ELSE UNCHANGED <<chars, pc, segs, span, last_index, result>>
    /\ UNCHANGED <<entry, text, seed, word, indices, list0, original_chars, subset,
                   rng0, earlier>>
    /\ UNCHANGED scoreVars

\* Every attempt gave the original back: restore it and return.
ShuffleExhausted ==
    /\ pc = "loop"
    /\ attempt >= MAX_SHUFFLE_ATTEMPTS
    /\ chars' = original_chars
    /\ WordReturns(entry, segs, span, original_chars)
    /\ UNCHANGED <<entry, text, seed, word, indices, list0, original_chars, subset,
                   attempt, rng, rng0, shuffles, earlier>>
    /\ UNCHANGED scoreVars

\* ------------------------------------------------------- the specifications

Seeds == (0..MaxSeed) \cup {None}

\* The index lists handed to _attempt_shuffle: the ascending lists of
\* positions of the list.
RECURSIVE Ascending(_, _)
Ascending(S, from) ==
    {<<>>} \cup UNION {{<<i>> \o rest : rest \in Ascending(S, i + 1)} :
                         i \in {j \in S : j >= from}}

IndexLists(c) == Ascending(0..(Len(c) - 1), 0)

\* scramble_text and the calls it makes.
CallScrambleText ==
    /\ Callable
    /\ \E t \in Texts, s \in Seeds : ScrambleText(t, s)
    /\ UNCHANGED scoreVars

Next ==
    \/ CallScrambleText
    \/ ScrambleTextAgain
    \/ ScrambleSegment
    \/ ShuffleAttempt
    \/ ShuffleExhausted
    \/ Finish

Spec == Init /\ [][Next]_vars

CallScrambleWord ==
    /\ Callable
    /\ \E w \in Words, r \in Seeds : ScrambleWord(w, r)
    /\ UNCHANGED scoreVars

CallAttemptShuffle ==
    /\ Callable
    /\ \E c \in Lists, r \in RngStates :
          \E idx \in IndexLists(c) : AttemptShuffle(c, idx, r)
    /\ UNCHANGED scoreVars

\* Direct calls of scramble_word and of _attempt_shuffle.
NextUnit ==
    \/ CallScrambleWord
    \/ CallAttemptShuffle
    \/ ShuffleAttempt
    \/ ShuffleExhausted

SpecUnit == Init /\ [][NextUnit]_vars

\* Direct calls of _attempt_shuffle alone.
NextShuffle ==
    \/ CallAttemptShuffle
    \/ ShuffleAttempt
    \/ ShuffleExhausted

SpecShuffle == Init /\ [][NextShuffle]_vars

\* ===================================================== src/src/scoring.py

\* -------------------------------------------------------------- normalize

\* The characters str.split() splits at, up to U+00FF.
IsSpace(c) == c \in {9, 10, 11, 12, 13, 28, 29, 30, 31, 32, 133, 160}

RECURSIVE SkipSpace(_, _, _)
\* The first index >= p of t whose character is whitespace iff `space` is
\* FALSE, or len(t).
SkipSpace(t, p, space) ==
    IF p < Len(t) /\ (IsSpace(At(t, p)) <=> space)
    THEN SkipSpace(t, p + 1, space)
    ELSE p

RECURSIVE Split(_, _)
\* text.split() from index p on: the maximal runs without whitespace.
Split(t, p) ==
    LET start == SkipSpace(t, p, TRUE)
        end == SkipSpace(t, start, FALSE)
    IN  IF start >= Len(t)
        THEN <<>>
        ELSE <<Slice(t, start, end)>> \o Split(t, end)

RECURSIVE JoinSpace(_)
\* " ".join(fields)
JoinSpace(fields) ==
    IF fields = <<>> THEN <<>>
    ELSE IF Len(fields) = 1 THEN fields[1]
    ELSE fields[1] \o <<32>> \o JoinSpace(Tail(fields))

\* Mutant: lower() leaves every character as it is.
LowerChar_unchanged(c) == c

\* str.lower() of one character, up to U+00FF.
LowerChar(c) ==
    IF \/ c >= 65 /\ c <= 90
       \/ c >= 192 /\ c <= 214
       \/ c >= 216 /\ c <= 222
    THEN c + 32
    ELSE c

\* str.lower()
Lower(s) == [k \in 1..Len(s) |-> LowerChar(s[k])]

\* normalize(text) under the two flags of the call.
normalize(t, ic, cw) ==
    LET processed == IF cw THEN JoinSpace(Split(t, 0)) ELSE t
    IN  IF ic THEN Lower(processed) ELSE processed

RECURSIVE findall(_, _)
\* WORD_PATTERN.findall(t), from index p on.
findall(t, p) ==
    LET m == NextMatch(t, p)
    IN  IF m = <<None, None>>
        THEN <<>>
        ELSE <<Slice(t, m[1], m[2])>> \o findall(t, m[2])

\* --------------------------------------------------------------- floats

RECURSIVE GCD(_, _)
GCD(a, b) == IF b = 0 THEN a ELSE GCD(b, a % b)

\* The quotient n / d, d > 0.
Quot(n, d) == <<n \div GCD(n, d), d \div GCD(n, d)>>

One == <<1, 1>>
Zero == <<0, 1>>

\* x <= y and x < y for two quotients.
Leq(x, y) == x[1] * y[2] <= y[1] * x[2]
Less(x, y) == x[1] * y[2] < y[1] * x[2]

\* Mutant: the sum of the three scores, not divided by 3.
Mean3_sum(c, w, t) ==
    Quot(c[1] * w[2] * t[2] + w[1] * c[2] * t[2] + t[1] * c[2] * w[2],
         c[2] * w[2] * t[2])

\* (c + w + t) / 3
Mean3(c, w, t) ==
    Quot(c[1] * w[2] * t[2] + w[1] * c[2] * t[2] + t[1] * c[2] * w[2],
         3 * c[2] * w[2] * t[2])

\* ------------------------------------------------ difflib.SequenceMatcher
\* SequenceMatcher(None, a, b) over two sequences of characters or of words.
\* Its junk heuristic applies to a second sequence of 200 elements or more,
\* which the sequences here never reach.

RECURSIVE RunEnding(_, _, _, _, _, _)
\* find_longest_match's k = j2len[j - 1] + 1: the length of the common run of
\* a[alo:] and b[blo:] that ends at a[i] and b[j]; 0 when a[i] # b[j].
RunEnding(a, b, i, j, alo, blo) ==
    IF i >= alo /\ j >= blo /\ At(a, i) = At(b, j)
    THEN 1 + RunEnding(a, b, i - 1, j - 1, alo, blo)
    ELSE 0

\* The k of every pair of positions of the two ranges.
RunLengths(a, b, alo, ahi, blo, bhi) ==
    [e \in (alo..(ahi - 1)) \X (blo..(bhi - 1)) |->
        RunEnding(a, b, e[1], e[2], alo, blo)]

MaxOf(V) == CHOOSE n \in V : \A v \in V : v <= n
MinOf(V) == CHOOSE n \in V : \A v \in V : n <= v

\* The first pair of E in the order of the scan: i ascending, then j.
FirstOf(E, i) == <<i, MinOf({e[2] : e \in {f \in E : f[1] = i}})>>
First(E) == FirstOf(E, MinOf({e[1] : e \in E}))

\* <<besti, bestj, bestsize>> for the run of length size that ends at e.
Block(e, size, alo, blo) ==
    IF size = 0
    THEN <<alo, blo, 0>>
    ELSE <<e[1] - size + 1, e[2] - size + 1, size>>

\* if k > bestsize: besti, bestj, bestsize = i - k + 1, j - k + 1, k.  The
\* scan takes a run only when it is strictly longer than the best so far, so
\* it ends with the first run of the greatest length.
Best(k, size, alo, blo) ==
    Block(First({e \in DOMAIN k : k[e] = size}), size, alo, blo)

BestOf(k, alo, blo) == Best(k, MaxOf({k[e] : e \in DOMAIN k}), alo, blo)

\* find_longest_match(alo, ahi, blo, bhi) = <<besti, bestj, bestsize>>
find_longest_match(a, b, alo, ahi, blo, bhi) ==
    IF alo >= ahi \/ blo >= bhi
    THEN <<alo, blo, 0>>
    ELSE BestOf(RunLengths(a, b, alo, ahi, blo, bhi), alo, blo)

\* Mutant: every element of a that occurs anywhere in b counts as matched.
matches_unordered(a, b, alo, ahi, blo, bhi) ==
    Cardinality({i \in alo..(ahi - 1) : \E j \in blo..(bhi - 1) : At(a, i) = At(b, j)})

RECURSIVE matches(_, _, _, _, _, _)
RECURSIVE MatchesAround(_, _, _, _, _, _, _, _, _)
\* The sizes of the matching blocks around the block of size k at (i, j):
\* the block, the ranges to its left and the ranges to its right.
MatchesAround(a, b, alo, ahi, blo, bhi, i, j, k) ==
    IF k = 0
    THEN 0
    ELSE k + (IF alo < i /\ blo < j
              THEN matches(a, b, alo, i, blo, j) ELSE 0)
           + (IF i + k < ahi /\ j + k < bhi
              THEN matches(a, b, i + k, ahi, j + k, bhi) ELSE 0)

MatchesOf(a, b, alo, ahi, blo, bhi, x) ==
    MatchesAround(a, b, alo, ahi, blo, bhi, x[1], x[2], x[3])

\* The sum of the sizes of get_matching_blocks().
matches(a, b, alo, ahi, blo, bhi) ==
    MatchesOf(a, b, alo, ahi, blo, bhi,
              find_longest_match(a, b, alo, ahi, blo, bhi))

\* Mutant: a ratio within one element of a full match is rounded up to 1.0.
calculate_ratio_rounded(m, length) ==
    IF length # 0
    THEN (IF 2 * m + 1 >= length THEN One ELSE Quot(2 * m, length))
    ELSE One

\* Mutant: two empty sequences have the ratio 0.0.
calculate_ratio_emptyZero(m, length) ==
    IF length # 0 THEN Quot(2 * m, length) ELSE Zero

\* _calculate_ratio(matches, length)
calculate_ratio(m, length) == IF length # 0 THEN Quot(2 * m, length) ELSE One

\* SequenceMatcher(None, a, b).ratio()
ratio(a, b) ==
    calculate_ratio(matches(a, b, 0, Len(a), 0, Len(b)), Len(a) + Len(b))

\* ------------------------------------------------- compute_detailed_score

\* The four method names, as the code points of their characters.
METHOD_char == <<99, 104, 97, 114>>
METHOD_word == <<119, 111, 114, 100>>
METHOD_token_set == <<116, 111, 107, 101, 110, 95, 115, 101, 116>>
METHOD_hybrid == <<104, 121, 98, 114, 105, 100>>

\* char_score = SequenceMatcher(None, original_norm, decoded_norm).ratio()
char_score(on, dn) == ratio(on, dn)

\* Mutant: a text without words scores 1.0 against any text.
word_score_oneEmptyOne(wo, wd) ==
    IF wo = <<>> \/ wd = <<>> THEN One ELSE ratio(wo, wd)

\* word_score over the two word lists.
word_score(wo, wd) ==
    IF wo = <<>> /\ wd = <<>> THEN One
    ELSE IF wo = <<>> \/ wd = <<>> THEN Zero
    ELSE ratio(wo, wd)

\* Mutant: the union is counted with the repetitions of the two lists.
token_set_score_counted(wo, wd) ==
    IF wo # <<>> \/ wd # <<>>
    THEN Quot(Cardinality(Elems(wo) \cap Elems(wd)),
              Len(wo) + Len(wd) - Cardinality(Elems(wo) \cap Elems(wd)))
    ELSE One

\* token_set_score over the two word lists.
token_set_score(wo, wd) ==
    IF wo # <<>> \/ wd # <<>>
    THEN LET union == Elems(wo) \cup Elems(wd)
             intersection == Elems(wo) \cap Elems(wd)
         IN  IF union # {}
             THEN Quot(Cardinality(intersection), Cardinality(union))
             ELSE One
    ELSE One

\* Mutant: the failure is swallowed, the score is 0.0.
Raise_zero(e) == [raised |-> "none", value |-> <<0, 1>>]

\* How a call ends: with a value, or with an exception.
Return(v) == [raised |-> "none", value |-> v]
Raise(e) == [raised |-> e, value |-> None]

\* Mutant: the method "word" selects the character score.
final_score_wordIsChar(method_lower, c, w, t) ==
    IF method_lower = METHOD_char THEN Return(c)
    ELSE IF method_lower = METHOD_word THEN Return(c)
    ELSE IF method_lower = METHOD_token_set THEN Return(t)
    ELSE IF method_lower = METHOD_hybrid THEN Return(Mean3(c, w, t))
    ELSE Raise("ValueError")

\* Mutant: a method that is none of the four falls back to hybrid.
final_score_fallback(method_lower, c, w, t) ==
    IF method_lower = METHOD_char THEN Return(c)
    ELSE IF method_lower = METHOD_word THEN Return(w)
    ELSE IF method_lower = METHOD_token_set THEN Return(t)
    ELSE Return(Mean3(c, w, t))

\* final_score for the lowercased method, or the ValueError.
final_score(method_lower, c, w, t) ==
    IF method_lower = METHOD_char THEN Return(c)
    ELSE IF method_lower = METHOD_word THEN Return(w)
    ELSE IF method_lower = METHOD_token_set THEN Return(t)
    ELSE IF method_lower = METHOD_hybrid THEN Return(Mean3(c, w, t))
    ELSE Raise("ValueError")

ScoreResult(model_name, source_label, m, s, c, w, t) ==
    [model_name |-> model_name, source_label |-> source_label, method |-> m,
     score |-> s, char_score |-> c, word_score |-> w, token_set_score |-> t]

\* compute_detailed_score(o, d, ignore_case=ic, collapse_whitespace=cw,
\* method=m, name=nm, source_label=label)
compute_detailed_score(o, d, ic, cw, m, nm, label) ==
    LET original_norm == normalize(o, ic, cw)
        decoded_norm == normalize(d, ic, cw)
        c == char_score(original_norm, decoded_norm)
        words_original == findall(original_norm, 0)
        words_decoded == findall(decoded_norm, 0)
        w == word_score(words_original, words_decoded)
        t == token_set_score(words_original, words_decoded)
        method_lower == Lower(m)
        final == final_score(method_lower, c, w, t)
    IN  IF final.raised # "none"
        THEN final
        ELSE Return(ScoreResult(nm, label, method_lower, final.value, c, w, t))

\* ---------------------------------------------------- _log_decoding_score

\* The results file is kept as splitlines(keepends=True) gives it: a line
\* is what it holds, piece by piece, and whether it ends with its line break.
\* Only the last line of a file can be without one.
Line(pieces) == [pieces |-> pieces, newline |-> TRUE]
Unterminated(pieces) == [pieces |-> pieces, newline |-> FALSE]

\* The four lines of the header.
HeaderLines ==
    <<Line(<<[kind |-> "title"]>>), Line(<<>>),
      Line(<<[kind |-> "columns"]>>), Line(<<[kind |-> "rule"]>>)>>

\* A note: text that starts with "- ".
Note(k) == [kind |-> "note", text |-> k]
NoteLine == Line(<<Note(1)>>)

\* line.startswith("- ")
StartsWithDash(line) == line.pieces # <<>> /\ line.pieces[1].kind = "note"

\* f"{x:.4f}": the quotient in ten-thousandths, rounded half to even.
Fixed4(x) ==
    LET q == (x[1] * 10000) \div x[2]
        r == (x[1] * 10000) % x[2]
    IN  IF 2 * r > x[2] \/ (2 * r = x[2] /\ q % 2 = 1) THEN q + 1 ELSE q

\* result.to_markdown_row()
to_markdown_row(r) ==
    [kind |-> "row", model_name |-> r.model_name, source_label |-> r.source_label,
     method |-> r.method, score |-> Fixed4(r.score), char |-> Fixed4(r.char_score),
     word |-> Fixed4(r.word_score), token |-> Fixed4(r.token_set_score)]

RECURSIVE FirstNote_behind(_, _)
\* Mutant: the index behind the first line that starts with "- ".
FirstNote_behind(lines, idx) ==
    IF idx >= Len(lines) THEN None
    ELSE IF StartsWithDash(At(lines, idx)) THEN idx + 1
    ELSE FirstNote_behind(lines, idx + 1)

RECURSIVE FirstNote(_, _)
\* The index of the first line from idx on that starts with "- ", or None.
FirstNote(lines, idx) ==
    IF idx >= Len(lines) THEN None
    ELSE IF StartsWithDash(At(lines, idx)) THEN idx
    ELSE FirstNote(lines, idx + 1)

RECURSIVE JoinLines(_)
\* The lines of the text "".join(lines): a line without a line break runs on
\* into the line after it.
JoinLines(lines) ==
    IF Len(lines) <= 1 THEN lines
    ELSE IF lines[1].newline THEN <<lines[1]>> \o JoinLines(Tail(lines))
    ELSE JoinLines(<<[pieces |-> lines[1].pieces \o lines[2].pieces,
                      newline |-> lines[2].newline]>> \o Tail(Tail(lines)))

\* The lines _log_decoding_score(r) writes after it has read `lines`.
WithRow(lines, r) ==
    LET row == Line(<<to_markdown_row(r)>>)
        insertion_index == FirstNote(lines, 0)
    IN  IF insertion_index = None
        THEN JoinLines(Append(lines, row))
        ELSE JoinLines(Slice(lines, 0, insertion_index) \o <<row>>
                       \o Slice(lines, insertion_index, Len(lines)))

\* The results file after _log_decoding_score(r) found it as `file`.
log_decoding_score(file, r) ==
    IF ~file.exists
    THEN File(JoinLines(HeaderLines \o <<Line(<<to_markdown_row(r)>>)>>))
    ELSE File(WithRow(file.content, r))

\* ------------------------------------------------------ the scoring calls

\* The defaults "unnamed" and "custom".
UNNAMED == <<117, 110, 110, 97, 109, 101, 100>>
CUSTOM == <<99, 117, 115, 116, 111, 109>>

\* Mutant: only None counts as no name.
Truthy_notNone(nm) == nm # NoName

\* Python's truth value of a name: neither None nor "".
Truthy(nm) == nm # NoName /\ nm # <<>>

\* What a scoring call leaves alone: its arguments and the scrambler.
ScoreFrame ==
    /\ UNCHANGED <<original, decoded, ignore_case, collapse_whitespace, method,
                   name, original_file, decoded_dir, log_results, output_format, queue,
                   results, results_file0, log_pc, log_result, log_lines,
                   legacy>>
    /\ UNCHANGED scrambleVars

\* A call of compute_detailed_score(original, decoded, ignore_case=...,
\* collapse_whitespace=..., method=method): it touches no file.
ComputeDetailedScore ==
    /\ Callable
    /\ name = NoName
    /\ entry' = "compute_detailed_score"
    /\ LET out == compute_detailed_score(original, decoded, ignore_case,
                      collapse_whitespace, method, UNNAMED, CUSTOM)
       IN  /\ raised' = out.raised
           /\ returned' = out.value
           /\ pc' = IF out.raised = "none" THEN "returned" ELSE "raised"
    /\ UNCHANGED <<results_file, logged>>
    /\ ScoreFrame

\* A call of score_decoded_text(original, decoded, ignore_case=...,
\* collapse_whitespace=..., method=method, name=name).
ScoreDecodedText ==
    /\ Callable
    /\ entry' = "score_decoded_text"
    /\ LET out == compute_detailed_score(original, decoded, ignore_case,
                      collapse_whitespace, method,
                      IF Truthy(name) THEN name ELSE UNNAMED, CUSTOM)
       IN  IF out.raised # "none"
           THEN /\ raised' = out.raised
                /\ returned' = None
                /\ UNCHANGED <<results_file, logged>>
                /\ pc' = "raised"
           ELSE /\ raised' = "none"
                /\ returned' = out.value.score
                /\ IF Truthy(name)
                   THEN /\ results_file' = log_decoding_score(results_file, out.value)
                        /\ logged' = Append(logged, out.value)
                   ELSE UNCHANGED <<results_file, logged>>
                /\ pc' = "returned"
    /\ ScoreFrame

\* The caller keeps the result and calls compute_detailed_score again on the
\* same texts with the same flags and another of the four methods.
ComputeDetailedScoreAgain ==
    /\ pc = "returned"
    /\ entry = "compute_detailed_score"
    /\ results = <<>>
    /\ \E m \in {METHOD_char, METHOD_word, METHOD_token_set, METHOD_hybrid} \ {method} :
          /\ method' = m
          /\ returned' = compute_detailed_score(original, decoded, ignore_case,
                             collapse_whitespace, m, UNNAMED, CUSTOM).value
    /\ results' = <<returned>>
    /\ UNCHANGED <<pc, entry, original, decoded, ignore_case, collapse_whitespace,
                   name, raised, original_file, decoded_dir, log_results,
                   output_format, queue,
                   results_file, results_file0, logged, log_pc, log_result,
                   log_lines, legacy>>
    /\ UNCHANGED scrambleVars

\* ---------------------------------------------------------- batch_evaluate

\* ".txt"
TXT == <<46, 116, 120, 116>>

\* fnmatch(n, "*.txt")
IsTxt(n) == Len(n) >= 4 /\ Slice(n, Len(n) - 4, Len(n)) = TXT

\* Path(n).stem of a name that matches "*.txt".
Stem(n) == IF Len(n) > 4 THEN Slice(n, 0, Len(n) - 4) ELSE n

RECURSIVE StrLess(_, _)
\* a < b for two strings.
StrLess(a, b) ==
    IF b = <<>> THEN FALSE
    ELSE IF a = <<>> THEN TRUE
    ELSE IF a[1] # b[1] THEN a[1] < b[1]
    ELSE StrLess(Tail(a), Tail(b))

RECURSIVE Sorted_descending(_)
\* Mutant: the greatest name comes first.
Sorted_descending(S) ==
    IF S = {} THEN <<>>
    ELSE LET greatest == CHOOSE n \in S : \A o \in S : o = n \/ StrLess(o, n)
         IN  <<greatest>> \o Sorted_descending(S \ {greatest})

RECURSIVE Sorted(_)
\* sorted(S) for a set of file names.
Sorted(S) ==
    IF S = {} THEN <<>>
    ELSE LET least == CHOOSE n \in S : \A o \in S : o = n \/ StrLess(n, o)
         IN  <<least>> \o Sorted(S \ {least})

RECURSIVE InsertDescending_unstable(_, _)
\* Mutant: r goes before the results of its own score.
InsertDescending_unstable(rs, r) ==
    IF rs = <<>> THEN <<r>>
    ELSE IF Leq(rs[1].score, r.score) THEN <<r>> \o rs
    ELSE <<rs[1]>> \o InsertDescending_unstable(Tail(rs), r)

RECURSIVE InsertDescending(_, _)
\* r goes behind the results whose score is at least its own.
InsertDescending(rs, r) ==
    IF rs = <<>> THEN <<r>>
    ELSE IF Less(rs[1].score, r.score) THEN <<r>> \o rs
    ELSE <<rs[1]>> \o InsertDescending(Tail(rs), r)

RECURSIVE SortDescending(_, _)
\* results.sort(key=lambda r: r.score, reverse=True): a stable sort, the
\* results of equal score keep their order.
SortDescending(rs, sorted) ==
    IF rs = <<>> THEN sorted
    ELSE SortDescending(Tail(rs), InsertDescending(sorted, rs[1]))

\* A directory with the texts of its files, by name.
Directory(files) == [exists |-> TRUE, is_dir |-> TRUE, content |-> files]

\* What batch_evaluate leaves alone: its arguments, the two paths it reads
\* and the scrambler.
BatchFrame ==
    /\ UNCHANGED <<original, decoded, ignore_case, collapse_whitespace, method,
                   name, original_file, decoded_dir, log_results, output_format,
                   results_file0,
                   log_pc, log_result, log_lines, legacy>>
    /\ UNCHANGED scrambleVars

\* Mutant: the directory is checked before the original file.
BatchEvaluate_directoryFirst ==
    /\ Callable
    /\ entry' = "batch_evaluate"
    /\ IF ~decoded_dir.is_dir
       THEN /\ raised' = "NotADirectoryError"
            /\ queue' = <<>>
            /\ pc' = "raised"
       ELSE IF ~original_file.exists
       THEN /\ raised' = "FileNotFoundError"
            /\ queue' = <<>>
            /\ pc' = "raised"
       ELSE IF original_file.is_dir
       THEN /\ raised' = "IsADirectoryError"
            /\ queue' = <<>>
            /\ pc' = "raised"
       ELSE /\ raised' = "none"
            /\ queue' = Sorted({n \in DOMAIN decoded_dir.content : IsTxt(n)})
            /\ pc' = "batch"
    /\ UNCHANGED <<results, returned, results_file, logged>>
    /\ BatchFrame

\* batch_evaluate(original_file, decoded_dir, method=method,
\* log_results=log_results) up to its loop: the two checks, the read of the
\* original and the sorted glob.
BatchEvaluate ==
    /\ Callable
    /\ entry' = "batch_evaluate"
    /\ IF ~original_file.exists
       THEN /\ raised' = "FileNotFoundError"
            /\ queue' = <<>>
            /\ pc' = "raised"
       ELSE IF ~decoded_dir.is_dir
       THEN /\ raised' = "NotADirectoryError"
            /\ queue' = <<>>
            /\ pc' = "raised"
       ELSE IF original_file.is_dir
       THEN /\ raised' = "IsADirectoryError"
            /\ queue' = <<>>
            /\ pc' = "raised"
       ELSE /\ raised' = "none"
            /\ queue' = Sorted({n \in DOMAIN decoded_dir.content : IsTxt(n)})
            /\ pc' = "batch"
    /\ UNCHANGED <<results, returned, results_file, logged>>
    /\ BatchFrame

\* One iteration of the loop: score the next file, append the result, log it.
BatchScoreFile ==
    /\ pc = "batch"
    /\ queue # <<>>
    /\ LET decoded_file == Head(queue)
           out == compute_detailed_score(original_file.content,
                      decoded_dir.content[decoded_file], TRUE, TRUE, method,
                      Stem(decoded_file), decoded_file)
       IN  IF out.raised # "none"
           THEN /\ raised' = out.raised
                /\ pc' = "raised"
                /\ UNCHANGED <<queue, results, results_file, logged>>
           ELSE /\ results' = Append(results, out.value)
                /\ IF log_results
                   THEN /\ results_file' = log_decoding_score(results_file, out.value)
                        /\ logged' = Append(logged, out.value)
                   ELSE UNCHANGED <<results_file, logged>>
                /\ queue' = Tail(queue)
                /\ UNCHANGED <<raised, pc>>
    /\ UNCHANGED <<entry, returned>>
    /\ BatchFrame

\* The files are exhausted: sort and return.
BatchReturn ==
    /\ pc = "batch"
    /\ queue = <<>>
    /\ results' = SortDescending(results, <<>>)
    /\ returned' = results'
    /\ pc' = "returned"
    /\ UNCHANGED <<entry, raised, queue, results_file, logged>>
    /\ BatchFrame

\* ------------------------------------------------------ generate_leaderboard

\* f"{x:.2%}": the quotient in hundredths of a percent, rounded half to even.
Percent2(x) ==
    LET q == (x[1] * 10000) \div x[2]
        r == (x[1] * 10000) % x[2]
    IN  IF 2 * r > x[2] \/ (2 * r = x[2] /\ q % 2 = 1) THEN q + 1 ELSE q

\* r.to_dict() as json.dumps writes it: every field, the scores in full.
to_dict(r) ==
    [kind |-> "object", model_name |-> r.model_name, source_label |-> r.source_label,
     method |-> r.method, score |-> r.score, char_score |-> r.char_score,
     word_score |-> r.word_score, token_set_score |-> r.token_set_score]

\* f"{i}. {r.model_name}: {r.score:.2%}"
TextLine(i, r) ==
    [kind |-> "entry", rank |-> i, model_name |-> r.model_name,
     score |-> Percent2(r.score)]

\* The medal of the first three ranks, str(i) for the others.
Medal(i) == IF i \in 1..3 THEN <<"medal", i>> ELSE <<"str", i>>

\* The markdown row of the result at rank i.
MarkdownLine(i, r) ==
    [kind |-> "row", rank |-> Medal(i), model_name |-> r.model_name,
     score |-> Percent2(r.score), char |-> Percent2(r.char_score),
     word |-> Percent2(r.word_score), token |-> Percent2(r.token_set_score)]

\* generate_leaderboard(rs, output_format=fmt): the JSON array, or the lines
\* of the text or of the markdown table.
generate_leaderboard(rs, fmt) ==
    LET sorted_results == SortDescending(rs, <<>>)
        n == Len(sorted_results)
    IN  IF fmt = "json"
        THEN [i \in 1..n |-> to_dict(sorted_results[i])]
        ELSE IF fmt = "text"
        THEN <<[kind |-> "title"], [kind |-> "rule"]>>
             \o [i \in 1..n |-> TextLine(i, sorted_results[i])]
        ELSE <<[kind |-> "title"], [kind |-> "blank"], [kind |-> "columns"],
               [kind |-> "rule"]>>
             \o [i \in 1..n |-> MarkdownLine(i, sorted_results[i])]

\* Mutant: the list handed in is sorted in place.
GenerateLeaderboard_inPlace ==
    /\ Callable
    /\ entry' = "generate_leaderboard"
    /\ returned' = generate_leaderboard(results, output_format)
    /\ results' = SortDescending(results, <<>>)
    /\ pc' = "returned"
    /\ UNCHANGED <<raised, queue, results_file, logged>>
    /\ BatchFrame

\* A call generate_leaderboard(results, output_format=output_format): sorted()
\* works on a copy, the caller's list stays as it is.
GenerateLeaderboard ==
    /\ Callable
    /\ entry' = "generate_leaderboard"
    /\ returned' = generate_leaderboard(results, output_format)
    /\ results' = results
    /\ pc' = "returned"
    /\ UNCHANGED <<raised, queue, results_file, logged>>
    /\ BatchFrame

\* ------------------------------------------- calls of _log_decoding_score

\* What a log call leaves alone: everything but the file and its own notes.
LogFrame ==
    /\ UNCHANGED <<pc, entry, original, decoded, ignore_case, collapse_whitespace,
                   method, name, returned, raised, original_file, decoded_dir,
                   log_results, output_format, queue, results, results_file0,
                   legacy>>
    /\ UNCHANGED scrambleVars

\* The results a caller hands to _log_decoding_score: "m" with a perfect
\* score, "n" with a half and "m" again with a third.
LogResults ==
    {ScoreResult(<<109>>, CUSTOM, METHOD_hybrid, <<1, 1>>, <<1, 1>>, <<1, 1>>, <<1, 1>>),
     ScoreResult(<<110>>, CUSTOM, METHOD_char, <<1, 2>>, <<1, 2>>, <<0, 1>>, <<0, 1>>),
     ScoreResult(<<109>>, CUSTOM, METHOD_word, <<1, 3>>, <<2, 3>>, <<1, 3>>, <<1, 2>>)}

\* One whole call _log_decoding_score(r, results_file=...), alone on the file.
LogDecodingScore ==
    /\ Callable
    /\ \A p \in Procs : log_pc[p] = "idle"
    /\ Len(logged) < MaxAppends
    /\ \E r \in LogResults :
          /\ results_file' = log_decoding_score(results_file, r)
          /\ logged' = Append(logged, r)
    /\ UNCHANGED <<log_pc, log_result, log_lines>>
    /\ LogFrame

\* Invocation p has reached `if not results_path.exists()`.
LogExists(p) ==
    /\ log_pc[p] = "exists"
    /\ log_pc' = [log_pc EXCEPT ![p] = IF results_file.exists THEN "read" ELSE "create"]
    /\ UNCHANGED <<results_file, logged, log_result, log_lines>>
    /\ LogFrame

\* results_path.write_text(header + row); return
LogCreate(p) ==
    /\ log_pc[p] = "create"
    /\ results_file' = log_decoding_score(Missing, log_result[p])
    /\ logged' = Append(logged, log_result[p])
    /\ log_pc' = [log_pc EXCEPT ![p] = "done"]
    /\ UNCHANGED <<log_result, log_lines>>
    /\ LogFrame

\* lines = results_path.read_text().splitlines(keepends=True)
LogRead(p) ==
    /\ log_pc[p] = "read"
    /\ log_lines' = [log_lines EXCEPT ![p] = results_file.content]
    /\ log_pc' = [log_pc EXCEPT ![p] = "write"]
    /\ UNCHANGED <<results_file, logged, log_result>>
    /\ LogFrame

\* Mutant: the row goes into the file as it is now, not into the lines read.
LogWrite_current(p) ==
    /\ log_pc[p] = "write"
    /\ results_file' = File(WithRow(results_file.content, log_result[p]))
    /\ logged' = Append(logged, log_result[p])
    /\ log_pc' = [log_pc EXCEPT ![p] = "done"]
    /\ UNCHANGED <<log_result, log_lines>>
    /\ LogFrame

\* The row goes into the lines read, and write_text replaces the file.
LogWrite(p) ==
    /\ log_pc[p] = "write"
    /\ results_file' = File(WithRow(log_lines[p], log_result[p]))
    /\ logged' = Append(logged, log_result[p])
    /\ log_pc' = [log_pc EXCEPT ![p] = "done"]
    /\ UNCHANGED <<log_result, log_lines>>
    /\ LogFrame

\* ------------------------------------------------------------ float
\*
\* The scores are Python floats, IEEE 754 doubles.  A double of the range
\* the scores live in is held exactly as a whole number of units
\* 2^-(GridLimbs * LimbBits - 2), written in GridLimbs digits of LimbBits
\* bits, most significant first, with a sign: every double from 2^-8 to 4 is
\* such a number, and so are the sums and differences of two of them.

\* The significand of a double has 53 bits.
DBL_MANT_DIG == 53

LimbBits == 16
GridLimbs == 4

RECURSIVE Pow2(_)
Pow2(k) == IF k = 0 THEN 1 ELSE 2 * Pow2(k - 1)

Base == Pow2(LimbBits)

ZeroMag == [k \in 1..GridLimbs |-> 0]

RECURSIVE AddFrom(_, _, _, _)
\* x + y on the digits 1..k, with a carry into digit k.
AddFrom(x, y, k, carry) ==
    IF k = 0
    THEN <<>>
    ELSE Append(AddFrom(x, y, k - 1, (x[k] + y[k] + carry) \div Base),
                (x[k] + y[k] + carry) % Base)

RECURSIVE SubFrom(_, _, _, _)
\* x - y on the digits 1..k for x >= y, with a borrow from digit k.
SubFrom(x, y, k, borrow) ==
    IF k = 0
    THEN <<>>
    ELSE Append(SubFrom(x, y, k - 1, IF x[k] - y[k] - borrow < 0 THEN 1 ELSE 0),
                (x[k] - y[k] - borrow + Base) % Base)

RECURSIVE LessFrom(_, _, _)
LessFrom(x, y, k) ==
    IF k > Len(x) THEN FALSE
    ELSE IF x[k] # y[k] THEN x[k] < y[k]
    ELSE LessFrom(x, y, k + 1)

LessMag(x, y) == LessFrom(x, y, 1)

RECURSIVE DivFrom(_, _, _, _)
\* The digits k.. of the quotient of x by the small number d, r being the
\* remainder of the digits before k.
DivFrom(x, k, r, d) ==
    IF k > Len(x)
    THEN <<>>
    ELSE <<(r * Base + x[k]) \div d>> \o DivFrom(x, k + 1, (r * Base + x[k]) % d, d)

RECURSIVE RemFrom(_, _, _, _)
RemFrom(x, k, r, d) ==
    IF k > Len(x) THEN r ELSE RemFrom(x, k + 1, (r * Base + x[k]) % d, d)

RECURSIVE BitLen(_)
BitLen(n) == IF n = 0 THEN 0 ELSE 1 + BitLen(n \div 2)

RECURSIVE BitLenFrom(_, _)
\* The number of bits of x, 0 for zero.
BitLenFrom(x, k) ==
    IF k > Len(x) THEN 0
    ELSE IF x[k] # 0 THEN (Len(x) - k) * LimbBits + BitLen(x[k])
    ELSE BitLenFrom(x, k + 1)

\* 2^k on the grid, bit 0 being the least significant.
PowMag(k) ==
    [i \in 1..GridLimbs |->
        IF (GridLimbs - i) = k \div LimbBits THEN Pow2(k % LimbBits) ELSE 0]

\* Bit k of x.
BitOf(x, k) == (x[GridLimbs - (k \div LimbBits)] \div Pow2(k % LimbBits)) % 2

\* The k lowest bits of x.
LowMag(x, k) ==
    [i \in 1..GridLimbs |->
        IF (GridLimbs - i + 1) * LimbBits <= k THEN x[i]
        ELSE IF (GridLimbs - i) * LimbBits >= k THEN 0
        ELSE x[i] % Pow2(k - (GridLimbs - i) * LimbBits)]

\* How many bits x has below its 53 most significant ones.
Dropped(x) ==
    IF BitLenFrom(x, 1) > DBL_MANT_DIG THEN BitLenFrom(x, 1) - DBL_MANT_DIG ELSE 0

\* Whether x, with something more below the grid when `sticky`, rounds up:
\* to nearest, a tie to the even significand.
RoundsUp(x, sticky, drop) ==
    /\ drop > 0
    /\ \/ LessMag(PowMag(drop - 1), LowMag(x, drop))
       \/ /\ LowMag(x, drop) = PowMag(drop - 1)
          /\ sticky \/ BitOf(x, drop) = 1

\* x without its `drop` lowest bits, one step up when it rounds up.
RoundAt(x, sticky, drop) ==
    IF RoundsUp(x, sticky, drop)
    THEN AddFrom(SubFrom(x, LowMag(x, drop), GridLimbs, 0), PowMag(drop), GridLimbs, 0)
    ELSE SubFrom(x, LowMag(x, drop), GridLimbs, 0)

\* x rounded to a double.
RoundMag(x, sticky) == RoundAt(x, sticky, Dropped(x))

Double(neg, mag) == [neg |-> neg /\ mag # ZeroMag, mag |-> mag]

\* float(n) / float(d) for a quotient n/d of two small numbers: the digits
\* of n/d on the grid, rounded.
DoubleOf(q) ==
    LET first == (q[1] * Pow2(LimbBits - 2)) \div q[2]
        r == (q[1] * Pow2(LimbBits - 2)) % q[2]
        x == <<first>> \o DivFrom(ZeroMag, 2, r, q[2])
    IN  Double(FALSE, RoundMag(x, RemFrom(ZeroMag, 2, r, q[2]) # 0))

\* a + b
FAdd(a, b) ==
    IF a.neg = b.neg
    THEN Double(a.neg, RoundMag(AddFrom(a.mag, b.mag, GridLimbs, 0), FALSE))
    ELSE IF LessMag(a.mag, b.mag)
    THEN Double(b.neg, RoundMag(SubFrom(b.mag, a.mag, GridLimbs, 0), FALSE))
    ELSE Double(a.neg, RoundMag(SubFrom(a.mag, b.mag, GridLimbs, 0), FALSE))

\* a - b
FSub(a, b) == FAdd(a, Double(~b.neg, b.mag))

\* a / n for a small whole number n
FDiv(a, n) ==
    Double(a.neg, RoundMag(DivFrom(a.mag, 1, 0, n), RemFrom(a.mag, 1, 0, n) # 0))

\* abs(a) >= abs(b)
AbsGeq(a, b) == ~LessMag(a.mag, b.mag)

DoubleZero == Double(FALSE, ZeroMag)

\* ====================================================== src/word_salat.py
\*
\* The module word_salat.py holds its own copy of the scrambler and of the
\* scorer.  Its functions are written here as functions of their arguments,
\* from its own text, on the same models of random, re, difflib and float.

\* _WORD_PATTERN
LegacyIsLetter(c) ==
    \/ 65 <= c /\ c <= 90
    \/ 97 <= c /\ c <= 122
    \/ 192 <= c /\ c <= 214
    \/ 216 <= c /\ c <= 246
    \/ 248 <= c /\ c <= 255

RECURSIVE LegacyRunEnd(_, _)
\* Where the run of letters that holds index p ends.
LegacyRunEnd(t, p) ==
    IF p < Len(t) /\ LegacyIsLetter(At(t, p)) THEN LegacyRunEnd(t, p + 1) ELSE p

\* Where the matches of _WORD_PATTERN at or after p start.
LegacyStarts(t, p) ==
    {i \in p..(Len(t) - 1) :
        /\ LegacyIsLetter(At(t, i))
        /\ i > p => ~LegacyIsLetter(At(t, i - 1))}

\* max_attempts: int = 8
LEGACY_MAX_ATTEMPTS == 8

\* candidate = original_chars.copy(), then candidate[idx] = value for the
\* pairs of zip(indices, randomized).
LegacyCandidate(original_chars_, idx, randomized) ==
    [k \in 1..Len(original_chars_) |->
        IF \E j \in 1..Len(idx) : idx[j] = k - 1
        THEN randomized[MaxOf({j \in 1..Len(idx) : idx[j] = k - 1})]
        ELSE original_chars_[k]]

RECURSIVE LegacyAttempts(_, _, _, _, _)

\* if candidate != original_chars: return it, else go round again.
LegacyAttempt(original_chars_, subset_, idx, r, candidate, left) ==
    IF candidate # original_chars_
    THEN [chars |-> candidate, rng |-> r]
    ELSE LegacyAttempts(original_chars_, subset_, idx, r, left - 1)

\* rng.shuffle(randomized) on a copy of the subset.
LegacyShuffled(original_chars_, subset_, idx, sh, left) ==
    LegacyAttempt(original_chars_, subset_, idx, sh.rng,
                  LegacyCandidate(original_chars_, idx, sh.list), left)

\* for _ in range(max_attempts), with `left` iterations to go.
LegacyAttempts(original_chars_, subset_, idx, r, left) ==
    IF left = 0
    THEN [chars |-> original_chars_, rng |-> r]
    ELSE LegacyShuffled(original_chars_, subset_, idx, Shuffle(subset_, r), left)

\* subset = [chars[i] for i in indices]
LegacySubset(c, idx) == [k \in 1..Len(idx) |-> c[idx[k] + 1]]

\* word_salat._attempt_shuffle(chars, indices, rng)
word_salat_attempt_shuffle(c, idx, r) ==
    IF Len(idx) <= 1
    THEN [chars |-> c, rng |-> r]
    ELSE IF Cardinality({LegacySubset(c, idx)[k] : k \in 1..Len(idx)}) <= 1
    THEN [chars |-> c, rng |-> r]
    ELSE LegacyAttempts(c, LegacySubset(c, idx), idx, r, LEGACY_MAX_ATTEMPTS)

\* indices = list(range(1, len(word) - 1)), without len(word) // 2 for a
\* word of odd length.
LegacyIndices(w) ==
    SelectSeq([k \in 1..(Len(w) - 2) |-> k],
              LAMBDA i : Len(w) % 2 = 0 \/ i # Len(w) \div 2)

\* word_salat.scramble_word(word, rng), and the generator afterwards.
word_salat_scramble_word(w, r) ==
    IF Len(w) <= 3
    THEN [chars |-> w, rng |-> r]
    ELSE word_salat_attempt_shuffle(w, LegacyIndices(w), r)

RECURSIVE word_salat_scramble_segments(_, _, _, _)

\* yield scramble_word(match.group(), rng); last_index = end
LegacyYieldWord(t, end, out, joined) ==
    word_salat_scramble_segments(t, end, out.rng, joined \o out.chars)

\* One match: the text before it, if any, then the word.
LegacyMatch(t, last_index_, start, r, joined) ==
    LegacyYieldWord(t, LegacyRunEnd(t, start),
                    word_salat_scramble_word(Slice(t, start, LegacyRunEnd(t, start)), r),
                    joined \o Slice(t, last_index_, start))

\* word_salat._scramble_segments(text, rng) from last_index on: what it has
\* yielded, joined, and the generator afterwards.
word_salat_scramble_segments(t, last_index_, r, joined) ==
    IF LegacyStarts(t, last_index_) = {}
    THEN [str |-> joined \o Slice(t, last_index_, Len(t)), rng |-> r]
    ELSE LegacyMatch(t, last_index_, MinOf(LegacyStarts(t, last_index_)), r, joined)

\* word_salat.scramble_text(text, seed), g being random.Random(seed).
word_salat_scramble_text(t, g) == word_salat_scramble_segments(t, 0, g, <<>>)

\* normalize(text) of word_salat.score_decoded_text
LegacyNormalize(t, ic, cw) ==
    LET processed == IF cw THEN JoinSpace(Split(t, 0)) ELSE t
    IN  IF ic THEN Lower(processed) ELSE processed

RECURSIVE LegacyFindall(_, _)
\* _WORD_PATTERN.findall(text) from p on.
LegacyFindall(t, p) ==
    IF LegacyStarts(t, p) = {}
    THEN <<>>
    ELSE <<Slice(t, MinOf(LegacyStarts(t, p)),
                 LegacyRunEnd(t, MinOf(LegacyStarts(t, p))))>>
             \o LegacyFindall(t, LegacyRunEnd(t, MinOf(LegacyStarts(t, p))))

\* word_ratio
LegacyWordRatio(words_original, words_decoded) ==
    IF words_original = <<>> /\ words_decoded = <<>> THEN DoubleOf(One)
    ELSE IF words_original = <<>> \/ words_decoded = <<>> THEN DoubleOf(Zero)
    ELSE DoubleOf(ratio(words_original, words_decoded))

\* token_set_ratio
LegacyTokenSetRatio(words_original, words_decoded) ==
    LET union == Elems(words_original) \cup Elems(words_decoded)
        intersection == Elems(words_original) \cap Elems(words_decoded)
    IN  IF words_original # <<>> \/ words_decoded # <<>>
        THEN (IF union # {}
              THEN DoubleOf(Quot(Cardinality(intersection), Cardinality(union)))
              ELSE DoubleOf(One))
        ELSE DoubleOf(One)

RECURSIVE SumPlain(_, _, _)
\* sum(xs) as CPython adds floats up to 3.11: one after the other, each sum
\* rounded.
SumPlain(xs, k, f_result) ==
    IF k > Len(xs) THEN f_result ELSE SumPlain(xs, k + 1, FAdd(f_result, xs[k]))

RECURSIVE SumCompensated(_, _, _, _)

\* One item x of the compensated sum: t = f_result + x, and what the
\* rounding of t lost goes into c.
SumStep(xs, k, f_result, c, x, t) ==
    SumCompensated(xs, k + 1, t,
                   IF AbsGeq(f_result, x)
                   THEN FAdd(c, FAdd(FSub(f_result, t), x))
                   ELSE FAdd(c, FAdd(FSub(x, t), f_result)))

\* sum(xs) as CPython adds floats from 3.12 on: Neumaier's compensated sum,
\* the compensation c added at the end.
SumCompensated(xs, k, f_result, c) ==
    IF k > Len(xs)
    THEN (IF c # DoubleZero THEN FAdd(f_result, c) ELSE f_result)
    ELSE SumStep(xs, k, f_result, c, xs[k], FAdd(f_result, xs[k]))

\* The builtin sum on a list of floats; which of the two it is depends on
\* the interpreter the module runs on.
Sum(xs, compensated) ==
    IF compensated
    THEN SumCompensated(xs, 1, DoubleZero, DoubleZero)
    ELSE SumPlain(xs, 1, DoubleZero)

\* Mutant: the method "word" falls back on char_ratio.
LegacyScore_wordFallsBack(m, c, w, t, compensated) ==
    IF m = METHOD_char THEN Return(c)
    ELSE IF m = METHOD_word THEN Return(c)
    ELSE IF m = METHOD_token_set THEN Return(t)
    ELSE IF m = METHOD_hybrid THEN Return(FDiv(Sum(<<c, w, t>>, compensated), 3))
    ELSE Raise("ValueError")

\* The score the method names, of word_salat.score_decoded_text.
LegacyScore(method_normalized, char_ratio, word_ratio, token_set_ratio, compensated) ==
    IF method_normalized = METHOD_char THEN Return(char_ratio)
    ELSE IF method_normalized = METHOD_word THEN Return(word_ratio)
    ELSE IF method_normalized = METHOD_token_set THEN Return(token_set_ratio)
    ELSE IF method_normalized = METHOD_hybrid
    THEN Return(FDiv(Sum(<<char_ratio, word_ratio, token_set_ratio>>, compensated), 3))
    ELSE Raise("ValueError")

\* word_salat.score_decoded_text(original, decoded, ignore_case=ic,
\* collapse_whitespace=cw, method=m), without a name.
word_salat_score_decoded_text(o, d, ic, cw, m, compensated) ==
    LET original_norm == LegacyNormalize(o, ic, cw)
        decoded_norm == LegacyNormalize(d, ic, cw)
        words_original == LegacyFindall(original_norm, 0)
        words_decoded == LegacyFindall(decoded_norm, 0)
    IN  LegacyScore(Lower(m),
                    DoubleOf(ratio(original_norm, decoded_norm)),
                    LegacyWordRatio(words_original, words_decoded),
                    LegacyTokenSetRatio(words_original, words_decoded),
                    compensated)

\* result.score as the float it is: the component the method names, or
\* (char_score + word_score + token_set_score) / 3.
ScoreAsDouble(r) ==
    IF r.method = METHOD_hybrid
    THEN FDiv(FAdd(FAdd(DoubleOf(r.char_score), DoubleOf(r.word_score)),
                   DoubleOf(r.token_set_score)), 3)
    ELSE DoubleOf(r.score)

\* What the legacy calls leave alone: everything but their own outcome.
LegacyFrame ==
    /\ UNCHANGED <<pc, entry, original, decoded, ignore_case, collapse_whitespace,
                   method, name, returned, raised, original_file, decoded_dir,
                   log_results, output_format, queue, results, results_file,
                   results_file0, logged, log_pc, log_result, log_lines>>
    /\ UNCHANGED scrambleVars

\* The caller hands the text and the seed of the call that has returned to
\* word_salat.scramble_text, which makes its own random.Random(seed).
LegacyScrambleText ==
    /\ pc = "done"
    /\ entry = "scramble_text"
    /\ legacy = NoLegacy
    /\ \E g \in SeedRngs(seed) :
          legacy' = [raised |-> "none",
                     value |-> word_salat_scramble_text(text, g).str,
                     rng |-> word_salat_scramble_text(text, g).rng,
                     compensated |-> FALSE]
    /\ LegacyFrame

\* The caller hands the arguments of the scoring call that has ended to
\* word_salat.score_decoded_text, on an interpreter of either kind.
LegacyScoreDecodedText ==
    /\ pc \in {"returned", "raised"}
    /\ entry = "score_decoded_text"
    /\ legacy = NoLegacy
    /\ \E compensated \in BOOLEAN :
          LET out == word_salat_score_decoded_text(original, decoded, ignore_case,
                         collapse_whitespace, method, compensated)
          IN  legacy' = [raised |-> out.raised, value |-> out.value, rng |-> None,
                         compensated |-> compensated]
    /\ LegacyFrame

\* ------------------------------------------- the scoring specifications

\* The texts handed to the scoring calls: "a", "A" and the space.
ScoreChars == {97, 65, 32}
ScoreTexts == StringsOver(ScoreChars, MaxScoreLen)

\* "CHAR" and "unknown"
METHOD_CHAR == <<67, 72, 65, 82>>
METHOD_unknown == <<117, 110, 107, 110, 111, 119, 110>>

Methods == {METHOD_char, METHOD_word, METHOD_token_set, METHOD_hybrid,
            METHOD_CHAR, METHOD_unknown}

\* name=None and name="m"
Names == {NoName, <<109>>}

\* The caller has chosen the arguments of a scoring call on two of the texts
\* T with one of the methods M and flags of F; there is no results file yet.
ScoreArguments(T, M, F) ==
    /\ InitScrambler
    /\ original \in T
    /\ decoded \in T
    /\ ignore_case \in F
    /\ collapse_whitespace \in F
    /\ method \in M
    /\ results_file = Missing
    /\ results_file0 = Missing
    /\ InitLog
    /\ returned = None
    /\ raised = "none"
    /\ original_file = Missing
    /\ decoded_dir = Missing
    /\ log_results = TRUE
    /\ output_format = "markdown"
    /\ queue = <<>>
    /\ results = <<>>

InitScore ==
    /\ ScoreArguments(ScoreTexts, Methods, BOOLEAN)
    /\ name \in Names

\* Direct calls of the two scoring functions on short texts, and second calls
\* of compute_detailed_score with another method.
NextScore ==
    \/ ComputeDetailedScore
    \/ ComputeDetailedScoreAgain
    \/ ScoreDecodedText

SpecScore == InitScore /\ [][NextScore]_vars

\* The words "a" and "bbbbbbb", and the texts of up to MaxWords of them,
\* joined by single spaces.
Vocabulary == {<<97>>, <<98, 98, 98, 98, 98, 98, 98>>}
Sentences == {JoinSpace(ws) : ws \in StringsOver(Vocabulary, MaxWords)}

ValidMethods == {METHOD_char, METHOD_word, METHOD_token_set, METHOD_hybrid}

InitWords ==
    /\ ScoreArguments(Sentences, ValidMethods, {TRUE})
    /\ name = NoName

\* Calls of compute_detailed_score with its default flags on texts of
\* several words.
NextWords == ComputeDetailedScore

SpecWords == InitWords /\ [][NextWords]_vars

\* The files of a batch: "a.txt", "b.txt", "c.txt" and "c.md", each holding
\* "a b" or "b a".
FileNames == {<<97>> \o TXT, <<98>> \o TXT, <<99>> \o TXT, <<99, 46, 109, 100>>}
BatchTexts == {<<97, 32, 98>>, <<98, 32, 97>>}

\* The directories of decoded files.
Directories ==
    UNION {{Directory(files) : files \in [S -> BatchTexts]} : S \in SUBSET FileNames}

\* The results file a call can find: none; a table with a note below it; a
\* table with two notes and a blank line between them, the last line without
\* its line break; a table that ends without a line break.
ResultsFiles ==
    {Missing,
     File(HeaderLines \o <<NoteLine>>),
     File(HeaderLines \o <<NoteLine, Line(<<>>), Unterminated(<<Note(2)>>)>>),
     File(Slice(HeaderLines, 0, 3) \o <<Unterminated(<<[kind |-> "rule"]>>)>>)}

\* The caller has chosen the arguments of batch_evaluate, and the file
\* system is what it is.
InitBatch ==
    /\ InitScrambler
    /\ original_file \in {Missing, Directory(<<>>)} \cup {File(t) : t \in BatchTexts}
    /\ decoded_dir \in {Missing, File(<<>>)} \cup Directories
    /\ method \in Methods
    /\ log_results \in BOOLEAN
    /\ output_format = "markdown"
    /\ results_file \in ResultsFiles
    /\ results_file0 = results_file
    /\ InitLog
    /\ original = <<>>
    /\ decoded = <<>>
    /\ ignore_case = TRUE
    /\ collapse_whitespace = TRUE
    /\ name = NoName
    /\ returned = None
    /\ raised = "none"
    /\ queue = <<>>
    /\ results = <<>>

NextBatch ==
    \/ BatchEvaluate
    \/ BatchScoreFile
    \/ BatchReturn

SpecBatch == InitBatch /\ [][NextBatch]_vars

\* A caller that logs up to MaxAppends results one after another, and may
\* then call score_decoded_text on "a" and one of "a" and "b".
LogNames == {NoName, <<>>, <<109>>}
LogMethods == {METHOD_hybrid, METHOD_char, METHOD_unknown}

InitAppends ==
    /\ InitScrambler
    /\ InitLog
    /\ original = <<97>>
    /\ decoded \in {<<97>>, <<98>>}
    /\ ignore_case = TRUE
    /\ collapse_whitespace = TRUE
    /\ method \in LogMethods
    /\ name \in LogNames
    /\ results_file \in ResultsFiles
    /\ results_file0 = results_file
    /\ returned = None
    /\ raised = "none"
    /\ original_file = Missing
    /\ decoded_dir = Missing
    /\ log_results = TRUE
    /\ output_format = "markdown"
    /\ queue = <<>>
    /\ results = <<>>

NextAppends ==
    \/ LogDecodingScore
    \/ ScoreDecodedText

SpecAppends == InitAppends /\ [][NextAppends]_vars

\* Two invocations that log one result each to the same file, step by step.
InitRace ==
    /\ InitScrambler
    /\ original = <<>>
    /\ decoded = <<>>
    /\ ignore_case = TRUE
    /\ collapse_whitespace = TRUE
    /\ method = <<>>
    /\ name = NoName
    /\ returned = None
    /\ raised = "none"
    /\ original_file = Missing
    /\ decoded_dir = Missing
    /\ log_results = TRUE
    /\ output_format = "markdown"
    /\ queue = <<>>
    /\ results = <<>>
    /\ results_file \in ResultsFiles
    /\ results_file0 = results_file
    /\ logged = <<>>
    /\ log_pc = [p \in Procs |-> "exists"]
    /\ log_result \in [Procs -> LogResults]
    /\ log_lines = [p \in Procs |-> <<>>]
    /\ legacy = NoLegacy

NextRace ==
    \E p \in Procs :
        \/ LogExists(p)
        \/ LogCreate(p)
        \/ LogRead(p)
        \/ LogWrite(p)

SpecRace == InitRace /\ [][NextRace]_vars

\* The results a leaderboard is made of: "p" and "q" tie at a half, "r" has
\* the full score, "s" has 1/8.
BoardResults ==
    {ScoreResult(<<112>>, CUSTOM, METHOD_hybrid, <<1, 2>>, <<1, 3>>, <<1, 2>>, <<2, 3>>),
     ScoreResult(<<113>>, CUSTOM, METHOD_char, <<1, 2>>, <<1, 2>>, <<0, 1>>, <<0, 1>>),
     ScoreResult(<<114>>, CUSTOM, METHOD_hybrid, <<1, 1>>, <<1, 1>>, <<1, 1>>, <<1, 1>>),
     ScoreResult(<<115>>, CUSTOM, METHOD_word, <<1, 8>>, <<0, 1>>, <<1, 8>>, <<1, 1>>)}

\* The formats asked for; "html" is none of the three.
OutputFormats == {"markdown", "json", "text", "html"}

\* The caller holds a list of results and has chosen a format.
InitBoard ==
    /\ InitScrambler
    /\ InitLog
    /\ results \in StringsOver(BoardResults, MaxBoard)
    /\ output_format \in OutputFormats
    /\ original = <<>>
    /\ decoded = <<>>
    /\ ignore_case = TRUE
    /\ collapse_whitespace = TRUE
    /\ method = <<>>
    /\ name = NoName
    /\ returned = None
    /\ raised = "none"
    /\ original_file = Missing
    /\ decoded_dir = Missing
    /\ log_results = TRUE
    /\ queue = <<>>
    /\ results_file = Missing
    /\ results_file0 = Missing

NextBoard == GenerateLeaderboard

SpecBoard == InitBoard /\ [][NextBoard]_vars

\* The texts of several words: "abab" takes a shuffle, "abba" has equal
\* letters to shuffle, "ab" is short and U+00D7 is no letter; single spaces
\* stand between them.
ThreadTokens == {<<97, 98, 97, 98>>, <<97, 98, 98, 97>>, <<97, 98>>, <<215>>}
ThreadTexts == {JoinSpace(ts) : ts \in StringsOver(ThreadTokens, MaxThreadWords)}

\* Seeds whose generators give the list back zero, one or two times
\* before they change it.
ThreadSeeds == {6, 13, 27}

CallScrambleThread ==
    /\ Callable
    /\ \E t \in ThreadTexts, s \in ThreadSeeds : ScrambleText(t, s)
    /\ UNCHANGED scoreVars

\* What the caller keeps of a call that has returned.
Kept == [text |-> text, segs |-> segs, result |-> result]

\* The caller calls scramble_text again with the same seed and another text.
ScrambleTextOther ==
    /\ pc = "done"
    /\ entry = "scramble_text"
    /\ earlier = {}
    /\ \E t \in ThreadTexts : StartText(t, seed, {Kept})
    /\ UNCHANGED scoreVars

\* Two calls of scramble_text with one seed on texts of several words.
NextThread ==
    \/ CallScrambleThread
    \/ ScrambleTextOther
    \/ ScrambleSegment
    \/ ShuffleAttempt
    \/ ShuffleExhausted
    \/ Finish

SpecThread == Init /\ [][NextThread]_vars

\* Calls of score_decoded_text and of batch_evaluate with methods that are
\* and are not known, on an original file "a b" and directories of up to
\* two *.txt files.
FailDirectories ==
    {d \in Directories : DOMAIN d.content \subseteq {<<97>> \o TXT, <<98>> \o TXT}}

InitFail ==
    /\ InitScrambler
    /\ InitLog
    /\ original = <<97>>
    /\ decoded \in {<<97>>, <<98>>}
    /\ ignore_case = TRUE
    /\ collapse_whitespace = TRUE
    /\ method \in Methods
    /\ name \in LogNames
    /\ results_file \in ResultsFiles
    /\ results_file0 = results_file
    /\ returned = None
    /\ raised = "none"
    /\ original_file = File(<<97, 32, 98>>)
    /\ decoded_dir \in FailDirectories
    /\ log_results \in BOOLEAN
    /\ output_format = "markdown"
    /\ queue = <<>>
    /\ results = <<>>

NextFail ==
    \/ ScoreDecodedText
    \/ BatchEvaluate
    \/ BatchScoreFile
    \/ BatchReturn

SpecFail == InitFail /\ [][NextFail]_vars

\* The legacy module beside the package: texts of up to MaxLegacyWords words
\* for the two scramble_text, and texts of up to MaxLegacyTokens of the
\* tokens "a", "B" and "c" for the two score_decoded_text.
MaxLegacyWords == 2
MaxLegacyTokens == 2

LegacyTexts == {JoinSpace(ts) : ts \in StringsOver(ThreadTokens, MaxLegacyWords)}
LegacySeeds == {0, 6, 13}
LegacyTokens == {<<97>>, <<66>>, <<99>>}
LegacyScoreTexts ==
    {JoinSpace(ts) : ts \in StringsOver(LegacyTokens, MaxLegacyTokens)}
        \cup {<<97, 32, 32, 66>>}

\* hybrid, word, "CHAR" and a name that is no method
LegacyMethods == {METHOD_hybrid, METHOD_word, METHOD_CHAR, METHOD_unknown}

\* The caller is about to scramble a text, or to score one against another.
InitLegacy ==
    \/ /\ ScoreArguments(LegacyScoreTexts, LegacyMethods, BOOLEAN)
       /\ name = NoName
    \/ /\ InitScoring
       /\ pc = "idle"
       /\ entry = "none"
       /\ text \in LegacyTexts
       /\ seed \in LegacySeeds
       /\ last_index = 0
       /\ span = NoSpan
       /\ segs = <<>>
       /\ word = <<>>
       /\ chars = <<>>
       /\ indices = <<>>
       /\ list0 = <<>>
       /\ original_chars = <<>>
       /\ subset = <<>>
       /\ attempt = 0
       /\ rng = None
       /\ rng0 = None
       /\ shuffles = 0
       /\ result = <<>>
       /\ earlier = {}

\* scramble_text on the text and the seed the caller holds.
ScrambleTextChosen ==
    /\ seed # None
    /\ ScrambleText(text, seed)
    /\ UNCHANGED scoreVars

NextLegacy ==
    \/ ScrambleTextChosen
    \/ ScrambleSegment
    \/ ShuffleAttempt
    \/ ShuffleExhausted
    \/ Finish
    \/ LegacyScrambleText
    \/ ScoreDecodedText
    \/ LegacyScoreDecodedText

SpecLegacy == InitLegacy /\ [][NextLegacy]_vars

\* ------------------------------------------------------------ the claims

\* The letters of the word alphabet, as the specification lists them: A-Z,
\* a-z, U+00C0-U+00D6, U+00D8-U+00F6, U+00F8-U+00FF.
WordAlphabet ==
    (65..90) \cup (97..122) \cup (192..214) \cup (216..246) \cup (248..255)

CountOf(s, c) == Cardinality({k \in 1..Len(s) : s[k] = c})

SameMultiset(a, b) ==
    /\ Len(a) = Len(b)
    /\ \A k \in 1..Len(a) : CountOf(a, a[k]) = CountOf(b, a[k])

\* The interior w[1:-1] of a string of length two or more.
Interior(w) == [k \in 1..(Len(w) - 2) |-> w[k + 1]]

WordDone == pc = "done" /\ entry = "scramble_word"

\* C1: scramble_word of a word longer than three characters returns a string
\* of the same length with the same first and last character, whose interior
\* is a permutation of the word's interior.
C1_KeepsEndsAndInterior ==
    (WordDone /\ Len(word) > 3) =>
        /\ Len(result) = Len(word)
        /\ result[1] = word[1]
        /\ result[Len(result)] = word[Len(word)]
        /\ SameMultiset(Interior(result), Interior(word))

\* A word longer than three characters came back scrambled.
C1_Witness == WordDone /\ Len(word) > 3 /\ result # word

\* C2: scramble_word of a word of at most three characters (the empty string
\* included) returns the word itself, whatever the rng and also without one.
C2_ShortUnchanged == (WordDone /\ Len(word) <= 3) => result = word

\* A three-letter word of distinct letters was returned, no rng passed.
C2_Witness ==
    /\ WordDone
    /\ Len(word) = 3
    /\ Cardinality(Elems(word)) = 3
    /\ rng0 = None
    /\ result = word

TextDone == pc = "done" /\ entry = "scramble_text"

\* C4: scramble_text returns a string as long as the text that agrees with
\* the text at every index whose character is not a letter of the word
\* alphabet; a text without letters is therefore returned as it is.
C4_NonLettersStay ==
    TextDone =>
        /\ Len(result) = Len(text)
        /\ \A k \in 1..Len(text) :
              text[k] \notin WordAlphabet => result[k] = text[k]

\* A text with U+00D7 in it came back with a word scrambled.
C4_Witness == TextDone /\ result # text /\ 215 \in Elems(text)

\* C5: a call of scramble_text with a seed returns what the earlier calls
\* with the same text and the same seed returned.
C5_SameSeedSameOutput ==
    (TextDone /\ seed # None) => \A r \in earlier : r = result

\* A seeded call was repeated, and it scrambles the text.
C5_Witness == TextDone /\ seed # None /\ earlier # {} /\ result # text

ShuffleDone == pc = "done" /\ entry = "_attempt_shuffle"

\* C6: _attempt_shuffle always returns.  It calls rng.shuffle at most 8
\* times; while the loop runs the list is the original one and a step can
\* be taken; every step of the loop either returns or is one more call of
\* rng.shuffle; a list that differs from the original is returned by the
\* attempt that produced it, and the original comes back from the loop only
\* after 8 candidates equal to it.
C6_ShuffleTerminates ==
    /\ [](shuffles <= 8)
    /\ [](pc = "loop" =>
            /\ chars = list0
            /\ ENABLED (ShuffleAttempt \/ ShuffleExhausted))
    /\ []((pc = "done" /\ shuffles > 0 /\ result = list0) => shuffles = 8)
    /\ []((pc = "done" /\ result # list0 /\ list0 # <<>>) => shuffles >= 1)
    /\ [][pc = "loop" =>
            \/ pc' = "done"
            \/ pc' = "loop" /\ shuffles' = shuffles + 1 /\ chars' = list0]_vars

\* Eight candidates in a row equalled the original, which was returned.
C6_Witness == ShuffleDone /\ shuffles = 8 /\ result = list0

\* The mutable index set of a word: the interior positions, without the
\* middle one when the length is odd.
MutableSet(w) ==
    {i \in 1..(Len(w) - 2) : Len(w) % 2 = 0 \/ i # Len(w) \div 2}

\* At most one index, or the same character at every index.
NothingToShuffle(c, S) ==
    \/ Cardinality(S) <= 1
    \/ \A i, j \in S : c[i + 1] = c[j + 1]

\* C7: when there is at most one mutable index, or the characters at the
\* mutable indices are all the same, the word (the list) is returned as it
\* is, rng.shuffle is not called and the generator's state is what it was.
C7_NothingToShuffleNoRng ==
    /\ (WordDone /\ NothingToShuffle(word, MutableSet(word))) =>
           result = word /\ shuffles = 0 /\ rng = rng0
    /\ (ShuffleDone /\ NothingToShuffle(list0, Elems(indices))) =>
           result = list0 /\ shuffles = 0 /\ rng = rng0

\* A six-letter word of two letters whose four mutable characters are the
\* same was returned, with a generator a draw would have moved.
C7_Witness ==
    /\ WordDone
    /\ Len(word) = 6
    /\ word[1] # word[2]
    /\ NothingToShuffle(word, MutableSet(word))
    /\ rng0 > 0
    /\ result = word

\* The characters outside the indices are those of the list passed.
OutsideKept ==
    /\ Len(result) = Len(list0)
    /\ \A k \in 1..Len(list0) :
          (k - 1) \notin Elems(indices) => result[k] = list0[k]

\* C8 as stated: with two or more indices whose characters are not all the
\* same, _attempt_shuffle returns a list that differs from the one passed,
\* whatever the generator's state, and keeps the characters outside the
\* indices.
C8_AlwaysDiffers ==
    (ShuffleDone /\ ~NothingToShuffle(list0, Elems(indices))) =>
        result # list0 /\ OutsideKept

\* C8 as amended: the list returned differs from the one passed unless all 8
\* shuffles gave the original order back, in which case it is the list
\* passed; either way the characters outside the indices are kept.
C8_DiffersUnlessExhausted ==
    (ShuffleDone /\ ~NothingToShuffle(list0, Elems(indices))) =>
        /\ shuffles >= 1
        /\ shuffles < 8 => result # list0
        /\ result = list0 => shuffles = 8
        /\ OutsideKept

\* A list came back in another order, with a position outside the indices.
C8_Witness ==
    /\ ShuffleDone
    /\ ~NothingToShuffle(list0, Elems(indices))
    /\ result # list0
    /\ Len(indices) < Len(list0)

\* C9: the segments yielded for a text are non-empty, follow one another
\* without gap or overlap from index 0, and at the end cover the text; a
\* WORD segment is a maximal run of letters of the alphabet, a LITERAL
\* segment a maximal run of other characters, so the two kinds alternate.
C9_SegmentsPartition ==
    /\ \A k \in 1..Len(segs) :
          LET g == segs[k]
          IN  /\ g.start < g.end
              /\ Len(g.str) = g.end - g.start
              /\ g.start = (IF k = 1 THEN 0 ELSE segs[k - 1].end)
              /\ \A i \in (g.start + 1)..g.end :
                    (text[i] \in WordAlphabet) <=> g.word
              /\ g.end < Len(text) =>
                    ((text[g.end + 1] \in WordAlphabet) <=> ~g.word)
              /\ k > 1 => (g.word <=> ~segs[k - 1].word)
    /\ TextDone =>
          IF text = <<>>
          THEN segs = <<>>
          ELSE segs # <<>> /\ segs[Len(segs)].end = Len(text)

\* A text of three segments, a word between two literals, came back
\* scrambled.
C9_Witness ==
    /\ TextDone
    /\ Len(segs) = 3
    /\ ~segs[1].word
    /\ result # text

\* The spans of the maximal runs of letters of the alphabet in s.
WordSpans(s) ==
    {sp \in (0..Len(s)) \X (0..Len(s)) :
        /\ sp[1] < sp[2]
        /\ \A i \in (sp[1] + 1)..sp[2] : s[i] \in WordAlphabet
        /\ sp[1] > 0 => s[sp[1]] \notin WordAlphabet
        /\ sp[2] < Len(s) => s[sp[2] + 1] \notin WordAlphabet}

\* C10: the words of scramble_text(t, seed) start and end where the words of
\* t do.
C10_SameWordSpans == TextDone => WordSpans(result) = WordSpans(text)

\* A text of two words came back with the first of them scrambled.
C10_Witness ==
    /\ TextDone
    /\ WordSpans(text) = {<<0, 4>>, <<5, 6>>}
    /\ result # text

\* ------------------------------------------------------ the scoring claims

ScoreReturned == pc = "returned" /\ entry = "score_decoded_text"
DetailReturned == pc = "returned" /\ entry = "compute_detailed_score"

\* C11: a text scored against itself gets exactly 1.0, whatever the flags
\* and whichever of the methods: score_decoded_text returns 1.0, and the
\* result of compute_detailed_score has the score and the three component
\* scores all equal to 1.0.
C11_IdenticalTextsScoreOne ==
    /\ (ScoreReturned /\ original = decoded) => returned = <<1, 1>>
    /\ (DetailReturned /\ original = decoded) =>
          /\ returned.score = <<1, 1>>
          /\ returned.char_score = <<1, 1>>
          /\ returned.word_score = <<1, 1>>
          /\ returned.token_set_score = <<1, 1>>

C11_Witness ==
    /\ DetailReturned
    /\ original = <<65, 32>>
    /\ decoded = original
    /\ ~ignore_case
    /\ ~collapse_whitespace
    /\ method = <<104, 121, 98, 114, 105, 100>>

\* 0 <= x <= 1 for a quotient with a positive denominator.
InUnitInterval(x) == x[2] > 0 /\ 0 <= x[1] /\ x[1] <= x[2]

\* C12: for every pair of texts and every accepted method, the score and the
\* three component scores of the result each lie in [0, 1].
C12_ScoresInUnitInterval ==
    /\ ScoreReturned => InUnitInterval(returned)
    /\ DetailReturned =>
          /\ InUnitInterval(returned.score)
          /\ InUnitInterval(returned.char_score)
          /\ InUnitInterval(returned.word_score)
          /\ InUnitInterval(returned.token_set_score)

\* "a " against " " without whitespace collapsing: 2/3 on characters, no
\* common word.
C12_Witness ==
    /\ DetailReturned
    /\ method = <<104, 121, 98, 114, 105, 100>>
    /\ returned.char_score = <<2, 3>>
    /\ returned.word_score = <<0, 1>>
    /\ returned.score = <<2, 9>>

\* score = (c + w + t) / 3, without dividing.
IsMeanOf(score, c, w, t) ==
    3 * score[1] * c[2] * w[2] * t[2]
        = score[2] * (c[1] * w[2] * t[2] + w[1] * c[2] * t[2] + t[1] * c[2] * w[2])

\* C13: the final score is the component the method names (char: char_score,
\* word: word_score, token_set: token_set_score) and the mean of the three
\* for hybrid; a second call on the same texts with another method gives the
\* same three component scores.
C13_MethodSelectsScore ==
    DetailReturned =>
        /\ method = METHOD_char => returned.score = returned.char_score
        /\ method = METHOD_word => returned.score = returned.word_score
        /\ method = METHOD_token_set => returned.score = returned.token_set_score
        /\ method = METHOD_hybrid =>
              IsMeanOf(returned.score, returned.char_score, returned.word_score,
                       returned.token_set_score)
        /\ results # <<>> =>
              /\ returned.char_score = results[1].char_score
              /\ returned.word_score = results[1].word_score
              /\ returned.token_set_score = results[1].token_set_score

\* A second call, with hybrid after word, on texts whose character score is
\* neither their word score nor the mean.
C13_Witness ==
    /\ DetailReturned
    /\ results # <<>>
    /\ results[1].method = METHOD_word
    /\ method = METHOD_hybrid
    /\ returned.char_score # returned.word_score
    /\ returned.score # returned.char_score
    /\ returned.score # results[1].score

ScoringCalled ==
    /\ pc \in {"returned", "raised"}
    /\ entry \in {"score_decoded_text", "compute_detailed_score"}

FourNames ==
    {<<99, 104, 97, 114>>, <<119, 111, 114, 100>>,
     <<116, 111, 107, 101, 110, 95, 115, 101, 116>>, <<104, 121, 98, 114, 105, 100>>}

RaisedValueError == pc = "raised" /\ raised = "ValueError" /\ returned = None

\* C14 as stated: every method string that is not one of the four names
\* char, word, token_set, hybrid makes both functions raise ValueError and
\* return nothing, whatever the texts.
C14_OnlyFourNamesAccepted ==
    (ScoringCalled /\ method \notin FourNames) => RaisedValueError

\* C14, amended: the method is compared after str.lower().  Every method
\* string whose lowercase form is not one of the four names makes both
\* functions raise ValueError and return nothing, whatever the texts; a
\* string that differs from a name only in letter case, like "CHAR", is
\* accepted and scored as that name.
C14_UnknownMethodRaises ==
    ScoringCalled =>
        /\ Lower(method) \notin FourNames => RaisedValueError
        /\ Lower(method) \in FourNames =>
              /\ pc = "returned"
              /\ raised = "none"
              /\ entry = "compute_detailed_score" => returned.method = Lower(method)

\* score_decoded_text("a", "a", method="unknown")
C14_Witness ==
    /\ entry = "score_decoded_text"
    /\ RaisedValueError
    /\ method = <<117, 110, 107, 110, 111, 119, 110>>
    /\ original = <<97>>
    /\ decoded = <<97>>

\* The words of s in the order they stand in: the maximal runs of letters.
NthSpan(spans, k) == CHOOSE x \in spans : Cardinality({y \in spans : y[1] < x[1]}) = k - 1
Cut(s, sp) == SubSeq(s, sp[1] + 1, sp[2])
WordsAt(s, spans) == [k \in 1..Cardinality(spans) |-> Cut(s, NthSpan(spans, k))]
WordsIn(s) == WordsAt(s, WordSpans(s))

\* The blocks the two sequences have in common: <<i, j, n>> for n equal
\* elements from a[i] and from b[j] on.
CommonBlocks(a, b) ==
    {x \in (1..Len(a)) \X (1..Len(b)) \X (1..Len(a)) :
        /\ x[1] + x[3] - 1 <= Len(a)
        /\ x[2] + x[3] - 1 <= Len(b)
        /\ SubSeq(a, x[1], x[1] + x[3] - 1) = SubSeq(b, x[2], x[2] + x[3] - 1)}

\* The longest common block, the leftmost in a and then in b among several.
LongestBlock(blocks) ==
    CHOOSE x \in blocks :
        \A y \in blocks :
            \/ y[3] < x[3]
            \/ y[3] = x[3] /\ x[1] < y[1]
            \/ y[3] = x[3] /\ x[1] = y[1] /\ x[2] <= y[2]

RECURSIVE Matched(_, _)
RECURSIVE MatchedAround(_, _, _)
\* M: the length of the longest common block, plus the same for what stands
\* to its left in both sequences, plus the same for what stands to its right.
MatchedAround(a, b, x) ==
    x[3] + Matched(SubSeq(a, 1, x[1] - 1), SubSeq(b, 1, x[2] - 1))
         + Matched(SubSeq(a, x[1] + x[3], Len(a)), SubSeq(b, x[2] + x[3], Len(b)))

Matched(a, b) ==
    IF CommonBlocks(a, b) = {}
    THEN 0
    ELSE MatchedAround(a, b, LongestBlock(CommonBlocks(a, b)))

\* x = 2 * M / T
IsRatio(x, M, T) == x[1] * T = x[2] * 2 * M

WordMetric(x, wo, wd) ==
    /\ (wo = <<>> /\ wd = <<>>) => x = <<1, 1>>
    /\ (wo = <<>> /\ wd # <<>>) => x = <<0, 1>>
    /\ (wo # <<>> /\ wd = <<>>) => x = <<0, 1>>
    /\ (wo # <<>> /\ wd # <<>>) => IsRatio(x, Matched(wo, wd), Len(wo) + Len(wd))

\* C15: word_score is 1.0 when neither normalized text contains a word, 0.0
\* when exactly one of them contains none, and otherwise the order-sensitive
\* matching-blocks ratio 2 * M / T of the two word lists.
C15_WordMetric ==
    DetailReturned =>
        WordMetric(returned.word_score,
                   WordsIn(normalize(original, ignore_case, collapse_whitespace)),
                   WordsIn(normalize(decoded, ignore_case, collapse_whitespace)))

\* "a bbbbbbb a" against "bbbbbbb a a": the block "bbbbbbb a" and nothing
\* else, 2 * 2 / 6.
C15_Witness ==
    /\ DetailReturned
    /\ WordsIn(original) = <<<<97>>, <<98, 98, 98, 98, 98, 98, 98>>, <<97>>>>
    /\ WordsIn(decoded) = <<<<98, 98, 98, 98, 98, 98, 98>>, <<97>>, <<97>>>>
    /\ returned.word_score = <<2, 3>>

\* The distinct words of a text.
SetOf(ws) == {ws[k] : k \in DOMAIN ws}
WordSet(s) == SetOf(WordsIn(s))

\* The texts whose distinct words are W.
SameWords(W) == {s \in Sentences : WordSet(s) = W}

\* x = |A \cap B| / |A \cup B|, and 1.0 when there is no word at all.
IsJaccard(x, A, B) ==
    IF A \cup B = {}
    THEN x = <<1, 1>>
    ELSE x[1] * Cardinality(A \cup B) = x[2] * Cardinality(A \cap B)

\* The token-set score of two texts under the flags of the call.
TokenSetOf(o, d) ==
    token_set_score(findall(normalize(o, ignore_case, collapse_whitespace), 0),
                    findall(normalize(d, ignore_case, collapse_whitespace), 0))

\* C16: token_set_score is |A \cap B| / |A \cup B| over the sets A and B of
\* distinct words of the two normalized texts, and 1.0 when neither has a
\* word.  Swapping the two texts gives the same score, and so does
\* replacing either text by one with the same words repeated or reordered.
C16_TokenSetIsJaccard ==
    DetailReturned =>
        /\ IsJaccard(returned.token_set_score,
                     WordSet(normalize(original, ignore_case, collapse_whitespace)),
                     WordSet(normalize(decoded, ignore_case, collapse_whitespace)))
        /\ TokenSetOf(decoded, original) = returned.token_set_score
        /\ \A o \in SameWords(WordSet(original)) :
              TokenSetOf(o, decoded) = returned.token_set_score
        /\ \A d \in SameWords(WordSet(decoded)) :
              TokenSetOf(original, d) = returned.token_set_score

\* "a a" against "bbbbbbb a a": one word of two in common, with repetitions.
C16_Witness ==
    /\ DetailReturned
    /\ WordsIn(original) = <<<<97>>, <<97>>>>
    /\ WordsIn(decoded) = <<<<98, 98, 98, 98, 98, 98, 98>>, <<97>>, <<97>>>>
    /\ returned.token_set_score = <<1, 2>>

\* The two normalized texts have the same distinct words, in another order.
ReorderedWords(wo, wd) == SetOf(wo) = SetOf(wd) /\ wo # wd
Reordered ==
    ReorderedWords(WordsIn(normalize(original, ignore_case, collapse_whitespace)),
                   WordsIn(normalize(decoded, ignore_case, collapse_whitespace)))

\* What C17 says of the three methods other than hybrid.
ReorderedScores ==
    /\ returned.token_set_score = <<1, 1>>
    /\ Less(returned.word_score, <<1, 1>>)
    /\ Less(returned.char_score, <<1, 1>>)
    /\ method = METHOD_token_set => returned.score = <<1, 1>>
    /\ method = METHOD_word => Less(returned.score, <<1, 1>>)
    /\ method = METHOD_char => Less(returned.score, <<1, 1>>)

\* C17 as stated: when decoded has the words of original in another order,
\* token_set scores 1.0, word and char score below 1.0, and hybrid scores at
\* least what char scores.
C17_ReorderedHybridAtLeastChar ==
    (DetailReturned /\ Reordered) =>
        /\ ReorderedScores
        /\ method = METHOD_hybrid => Leq(returned.char_score, returned.score)

\* w + 1 >= 2 * c
WordLiftsMean(c, w) == (w[1] + w[2]) * c[2] >= 2 * c[1] * w[2]

\* C17, amended: when decoded has the words of original in another order,
\* token_set scores 1.0 and word and char score below 1.0; hybrid scores
\* below 1.0 too, and at least what char scores exactly when
\* word_score + 1 >= 2 * char_score.
C17_ReorderedWords ==
    (DetailReturned /\ Reordered) =>
        /\ ReorderedScores
        /\ method = METHOD_hybrid =>
              /\ Less(returned.score, <<1, 1>>)
              /\ Leq(returned.char_score, returned.score)
                    <=> WordLiftsMean(returned.char_score, returned.word_score)

\* "a a bbbbbbb" against "a bbbbbbb a": 9/11 on characters, 2/3 on words,
\* and a hybrid score above the character score.
C17_Witness ==
    /\ DetailReturned
    /\ Reordered
    /\ method = METHOD_hybrid
    /\ returned.char_score = <<9, 11>>
    /\ returned.word_score = <<2, 3>>
    /\ Less(returned.char_score, returned.score)

\* The whitespace-separated fields of a text, in order.
Whitespace == {9, 10, 11, 12, 13, 32}
FieldSpans(s) ==
    {sp \in (0..Len(s)) \X (0..Len(s)) :
        /\ sp[1] < sp[2]
        /\ \A i \in (sp[1] + 1)..sp[2] : s[i] \notin Whitespace
        /\ sp[1] > 0 => s[sp[1]] \in Whitespace
        /\ sp[2] < Len(s) => s[sp[2] + 1] \in Whitespace}
FieldsIn(s) == WordsAt(s, FieldSpans(s))

\* Two characters that are equal, or the two cases of one ASCII letter.
SameButCase(c, d) ==
    \/ c = d
    \/ c \in 65..90 /\ d = c + 32
    \/ d \in 65..90 /\ c = d + 32

SameTextButCase(u, v) ==
    Len(u) = Len(v) /\ \A k \in 1..Len(u) : SameButCase(u[k], v[k])

SameFieldsButCase(fx, fy) ==
    Len(fx) = Len(fy) /\ \A k \in 1..Len(fx) : SameTextButCase(fx[k], fy[k])

\* x and y differ at most in letter case, in their runs of whitespace and in
\* leading or trailing whitespace.
OnlyCaseAndSpaceDiffer(x, y) == SameFieldsButCase(FieldsIn(x), FieldsIn(y))

\* ... and they do differ in the case of some letter, or in some whitespace.
CaseDiffers(x, y) == OnlyCaseAndSpaceDiffer(x, y) /\ FieldsIn(x) # FieldsIn(y)
SpaceDiffers(x, y) == OnlyCaseAndSpaceDiffer(x, y) /\ ~SameTextButCase(x, y)

ScoringReturned ==
    /\ pc = "returned"
    /\ entry \in {"score_decoded_text", "compute_detailed_score"}

\* The score of the call that has returned.
TheScore == IF entry = "score_decoded_text" THEN returned ELSE returned.score

ScoresOneByDefault ==
    (ignore_case /\ collapse_whitespace /\ OnlyCaseAndSpaceDiffer(original, decoded))
        => TheScore = <<1, 1>>

BatchReturned == pc = "returned" /\ entry = "batch_evaluate"

\* The names of the candidates directory that end in ".txt".
TxtFiles ==
    {n \in DOMAIN decoded_dir.content :
        Len(n) >= 4 /\ \A k \in 1..4 : n[Len(n) - 4 + k] = TXT[k]}

\* a comes before b in the order of the file names.
NameBefore(a, b) ==
    \E k \in 0..Len(a) :
        /\ k < Len(b)
        /\ \A i \in 1..k : a[i] = b[i]
        /\ k < Len(a) => a[k + 1] < b[k + 1]

\* The result of scoring the file n of the candidates directory.
ResultOf(n) ==
    compute_detailed_score(original_file.content, decoded_dir.content[n],
        TRUE, TRUE, method, Stem(n), n).value

\* C19: batch_evaluate returns one ScoreResult for each *.txt file of the
\* candidates directory, in the order of non-increasing score, and results of
\* equal score are in the ascending order of their file names.
C19_BatchResultsSorted ==
    BatchReturned =>
        /\ Len(returned) = Cardinality(TxtFiles)
        /\ {returned[i].source_label : i \in DOMAIN returned} = TxtFiles
        /\ \A i \in DOMAIN returned :
              returned[i] = ResultOf(returned[i].source_label)
        /\ \A i, j \in DOMAIN returned :
              i < j =>
                  /\ Leq(returned[j].score, returned[i].score)
                  /\ returned[i].score = returned[j].score
                        => NameBefore(returned[i].source_label,
                                      returned[j].source_label)

\* Three candidates: "b.txt" scores highest and comes first, "a.txt" and
\* "c.txt" tie and keep their order.
C19_Witness ==
    /\ BatchReturned
    /\ Len(returned) = 3
    /\ returned[1].source_label = <<98>> \o TXT
    /\ returned[2].source_label = <<97>> \o TXT
    /\ returned[3].source_label = <<99>> \o TXT
    /\ Less(returned[2].score, returned[1].score)
    /\ returned[2].score = returned[3].score

\* C20: batch_evaluate raises FileNotFoundError when the original file does
\* not exist, whatever the candidates path is, and NotADirectoryError when
\* the original exists and the candidates path is not a directory; in both
\* cases nothing is scored and the results file is as it was before the
\* call, also with log_results=True.
C20_InvalidPathsRaise ==
    entry = "batch_evaluate" =>
        /\ ~original_file.exists
              => pc = "raised" /\ raised = "FileNotFoundError"
        /\ (original_file.exists /\ ~decoded_dir.is_dir)
              => pc = "raised" /\ raised = "NotADirectoryError"
        /\ (~original_file.exists \/ ~decoded_dir.is_dir)
              => /\ queue = <<>>
                 /\ results = <<>>
                 /\ results_file = results_file0

\* Neither path is valid and the call was to log its results.
C20_Witness ==
    /\ entry = "batch_evaluate"
    /\ pc = "raised"
    /\ raised = "FileNotFoundError"
    /\ ~original_file.exists
    /\ ~decoded_dir.is_dir
    /\ log_results
    /\ results_file = results_file0

\* ------------------------------------------------------- the log claims

\* The line a logged result stands on, and the lines of several in order.
RowLine(r) == [pieces |-> <<to_markdown_row(r)>>, newline |-> TRUE]
RowLines(rs) == [i \in 1..Len(rs) |-> RowLine(rs[i])]

\* Where the lines that begin with "- " stand, and the first of them.
NotesAt(lines) ==
    {i \in DOMAIN lines : lines[i].pieces # <<>> /\ lines[i].pieces[1].kind = "note"}
FirstNoteAt(lines) == CHOOSE i \in NotesAt(lines) : \A j \in NotesAt(lines) : i <= j

\* The results file existed with notes in it before anything was logged.
HadNotes == results_file0.exists /\ NotesAt(results_file0.content) # {}

\* Where the lines equal to one of `wanted` stand.
PlacesOf(lines, wanted) == {i \in DOMAIN lines : lines[i] \in wanted}

\* C21: when the results file had lines that begin with "- ", the file is at
\* any time what it was with the rows logged so far, in the order they were
\* logged, put in just before the first such line.  So every logged row
\* stands before every line of notes, and the lines the file had are all
\* there, unaltered and in their order.
C21_RowsBeforeNotes ==
    HadNotes =>
        LET old == results_file0.content
            k == FirstNoteAt(old)
            now == results_file.content
        IN  /\ now = SubSeq(old, 1, k - 1) \o RowLines(logged)
                         \o SubSeq(old, k, Len(old))
            /\ \A i \in PlacesOf(now, {RowLine(r) : r \in SetOf(logged)}) :
                  \A j \in NotesAt(now) : i < j
            /\ Len(now) = Len(old) + Len(logged)

\* Three rows logged to the file with two notes, two of them different.
C21_Witness ==
    /\ HadNotes
    /\ Cardinality(NotesAt(results_file0.content)) = 2
    /\ Len(logged) = 3
    /\ logged[1] # logged[2]
    /\ results_file.content[5] = RowLine(logged[1])
    /\ results_file.content[7] = RowLine(logged[3])

\* The lines without the k-th.
Without(lines, k) == SubSeq(lines, 1, k - 1) \o SubSeq(lines, k + 1, Len(lines))

\* The new lines are the old ones with the one line `row` put in somewhere.
OneLineMore(old, new, row) ==
    /\ Len(new) = Len(old) + 1
    /\ \E k \in DOMAIN new : new[k] = row /\ Without(new, k) = old

\* The title, the blank line below it, the header row and the separator row.
NewTable ==
    <<[pieces |-> <<[kind |-> "title"]>>, newline |-> TRUE],
      [pieces |-> <<>>, newline |-> TRUE],
      [pieces |-> <<[kind |-> "columns"]>>, newline |-> TRUE],
      [pieces |-> <<[kind |-> "rule"]>>, newline |-> TRUE]>>

\* The step logs a result: the last of logged'.
Appends == logged' # logged
Appended == logged'[Len(logged')]

\* C22: each log append adds one row on a line of its own and changes
\* nothing else.  A file that does not exist is created as the title, the
\* header row, the separator row and the new row; a file that exists has
\* one more line afterwards, the new row, and its other lines are the lines
\* it had.
C22_AppendAddsOneLine ==
    [][Appends =>
          /\ logged' = Append(logged, Appended)
          /\ results_file'.exists
          /\ IF results_file.exists
             THEN OneLineMore(results_file.content, results_file'.content,
                              RowLine(Appended))
             ELSE results_file'.content = Append(NewTable, RowLine(Appended))]_vars

RECURSIVE RowCount(_)
\* How many table rows the lines hold, wherever on a line they stand.
RowCount(lines) ==
    IF lines = <<>> THEN 0
    ELSE Cardinality({i \in DOMAIN lines[1].pieces : lines[1].pieces[i].kind = "row"})
         + RowCount(Tail(lines))

\* The table row of r stands somewhere in the lines.
HasRow(lines, r) ==
    \E k \in DOMAIN lines : \E i \in DOMAIN lines[k].pieces :
        lines[k].pieces[i] = to_markdown_row(r)

BothDone == \A p \in Procs : log_pc[p] = "done"

\* Invocation p decided what to write before the other's row was in the file.
Stale(p) == RowCount(log_lines[p]) = 0

\* C23: two invocations log to one file.  When each has read the file, or
\* found it missing, before the other has written, the file in the end holds
\* one row only, that of the later writer: an update is lost.  When one of
\* them has read what the other wrote, as always when they run one after
\* another, both rows are in the file.
C23_LostUpdate ==
    /\ BothDone =>
          /\ (\A p \in Procs : Stale(p)) =>
                /\ RowCount(results_file.content) = 1
                /\ HasRow(results_file.content, logged[2])
          /\ (\E p \in Procs : ~Stale(p)) =>
                /\ RowCount(results_file.content) = 2
                /\ \A p \in Procs : HasRow(results_file.content, log_result[p])
    /\ \A p, q \in Procs :
          (log_pc[p] = "done" /\ log_pc[q] = "exists") =>
              /\ RowCount(results_file.content) = 1
              /\ HasRow(results_file.content, log_result[p])

\* Both have read the existing file before either wrote, and the row of the
\* first writer is gone.
C23_Witness ==
    /\ BothDone
    /\ results_file0.exists
    /\ \A p \in Procs : log_lines[p] = results_file0.content
    /\ log_result[1] # log_result[2]
    /\ RowCount(results_file.content) = 1
    /\ ~HasRow(results_file.content, logged[1])

RECURSIVE RowsIn(_)
\* The table rows the lines hold, in their order.
RowsIn(lines) ==
    IF lines = <<>> THEN <<>>
    ELSE SelectSeq(lines[1].pieces, LAMBDA piece : piece.kind = "row")
         \o RowsIn(Tail(lines))

\* The new rows are the old ones and one more for `nm` and `label`.
OneRowMore(old, new, nm, label) ==
    \E k \in DOMAIN new :
        /\ new[k].model_name = nm
        /\ new[k].source_label = label
        /\ Without(new, k) = old

\* The step is a call of score_decoded_text that returns.
ScoreDecodedTextReturns ==
    pc = "idle" /\ pc' = "returned" /\ entry' = "score_decoded_text"

\* C24: a call of score_decoded_text that returns has written to the results
\* file if and only if its name is neither None nor "".  Without a name the
\* file is what it was, missing or not; with a name the file exists and
\* holds one row more, with that name and the source label.  The score
\* returned is in both cases the score of the unnamed call.
C24_LogsIffNamed ==
    [][ScoreDecodedTextReturns =>
          /\ name \in {NoName, <<>>} => results_file' = results_file
          /\ name \notin {NoName, <<>>} =>
                /\ results_file' # results_file
                /\ results_file'.exists
                /\ OneRowMore(RowsIn(results_file.content),
                              RowsIn(results_file'.content), name, CUSTOM)
                /\ logged' = Append(logged, Appended)
          /\ returned' = compute_detailed_score(original, decoded, ignore_case,
                             collapse_whitespace, method, UNNAMED, CUSTOM).value.score]_vars

\* A call with the name "m" has created the file, after an unnamed call
\* would have left it missing.
C24_Witness ==
    /\ pc = "returned"
    /\ entry = "score_decoded_text"
    /\ name = <<109>>
    /\ ~results_file0.exists
    /\ results_file.exists
    /\ Len(logged) = 1
    /\ RowsIn(results_file.content)[1].model_name = <<109>>
    /\ RowsIn(results_file.content)[1].score = Fixed4(returned)

\* ------------------------------------------------- the leaderboard claim

\* The entries of a rendered leaderboard, below the lines of its heading.
EntriesOf(rendered, fmt) ==
    IF fmt = "json" THEN rendered
    ELSE IF fmt = "text" THEN SubSeq(rendered, 3, Len(rendered))
    ELSE SubSeq(rendered, 5, Len(rendered))

\* The entry at rank k shows the result r.
Shows(e, k, r, fmt) ==
    /\ e.model_name = r.model_name
    /\ fmt = "json" => /\ e.score = r.score
                       /\ e.char_score = r.char_score
                       /\ e.word_score = r.word_score
                       /\ e.token_set_score = r.token_set_score
                       /\ e.source_label = r.source_label
                       /\ e.method = r.method
    /\ fmt = "text" => e.rank = k /\ e.score = Fixed4(r.score)
    /\ fmt \notin {"json", "text"} =>
          /\ e.rank[2] = k
          /\ e.score = Fixed4(r.score)
          /\ e.char = Fixed4(r.char_score)
          /\ e.word = Fixed4(r.word_score)
          /\ e.token = Fixed4(r.token_set_score)

\* The entries show the results, each once, by non-increasing score, and
\* results of equal score in the order they have in the list.
RanksByScore(entries, rs, fmt) ==
    /\ Len(entries) = Len(rs)
    /\ \E at \in [DOMAIN rs -> DOMAIN rs] :
          /\ \A k, l \in DOMAIN rs : k # l => at[k] # at[l]
          /\ \A k \in DOMAIN rs : Shows(entries[k], k, rs[at[k]], fmt)
          /\ \A k, l \in DOMAIN rs :
                k < l =>
                    /\ rs[at[l]].score[1] * rs[at[k]].score[2]
                          <= rs[at[k]].score[1] * rs[at[l]].score[2]
                    /\ rs[at[k]].score = rs[at[l]].score => at[k] < at[l]

\* The step is a call of generate_leaderboard.
GenerateLeaderboardReturns ==
    pc = "idle" /\ pc' = "returned" /\ entry' = "generate_leaderboard"

\* C25: whatever the order of the list handed in and whatever the format,
\* generate_leaderboard renders the results by non-increasing score, results
\* of equal score in their order in the list, and the list and its records
\* are afterwards what they were.
C25_LeaderboardSorted ==
    [][GenerateLeaderboardReturns =>
          /\ RanksByScore(EntriesOf(returned', output_format), results, output_format)
          /\ results' = results]_vars

\* "q", "r", "p" with scores 1/2, 1, 1/2 come out as text in the order
\* "r", "q", "p".
C25_Witness ==
    /\ pc = "returned"
    /\ entry = "generate_leaderboard"
    /\ output_format = "text"
    /\ Len(results) = 3
    /\ results[1].model_name = <<113>>
    /\ results[2].model_name = <<114>>
    /\ results[3].model_name = <<112>>
    /\ returned[3].model_name = <<114>>
    /\ returned[4].model_name = <<113>>
    /\ returned[5].model_name = <<112>>
    /\ returned[4].score = 5000

\* ------------------------------------------------- the generator's thread

\* The positions of a word whose characters can move, and whether the word
\* takes a shuffle: it has more than three characters and two different
\* ones among those that can move.
MovablePositions(w) ==
    {i \in 2..(Len(w) - 1) : Len(w) % 2 = 1 => i # (Len(w) + 1) \div 2}
TakesShuffle(w) ==
    Len(w) > 3 /\ Cardinality({w[i] : i \in MovablePositions(w)}) > 1

\* The spans of the words of t that take a shuffle.
ShuffledSpans(t) == {sp \in WordSpans(t) : TakesShuffle(Cut(t, sp))}

\* scramble_text is at work, before and after the step.
Scrambling ==
    /\ entry = "scramble_text"
    /\ pc \in {"segments", "loop"}
    /\ pc' \in {"segments", "loop", "done"}

\* A step within a call changes the generator only in the loop of
\* _attempt_shuffle, on a word that takes a shuffle; the segments yielded so
\* far stay, and a segment is yielded with the generator as it is.
OnlyShufflesConsume ==
    Scrambling =>
        /\ rng' # rng => pc = "loop" /\ TakesShuffle(word)
        /\ pc = "segments" => rng' = rng
        /\ Len(segs') >= Len(segs)
        /\ SubSeq(segs', 1, Len(segs)) = segs

\* The call the caller has kept, once a second call has returned.
BothReturned == pc = "done" /\ entry = "scramble_text" /\ earlier # {}
KeptCall == CHOOSE k \in earlier : TRUE

\* Where the two texts are the same up to the end of a word of both, the two
\* outputs are the same up to there.
SameUpToWord(t1, r1, t2, r2) ==
    \A sp1 \in WordSpans(t1), sp2 \in WordSpans(t2) :
        (sp1[2] = sp2[2] /\ SubSeq(t1, 1, sp1[2]) = SubSeq(t2, 1, sp2[2]))
            => SubSeq(r1, 1, sp1[2]) = SubSeq(r2, 1, sp2[2])

\* Where the two texts have the same words that take a shuffle, in the same
\* order, these words come out the same.
SameShuffledWords(t1, r1, t2, r2) ==
    WordsAt(t1, ShuffledSpans(t1)) = WordsAt(t2, ShuffledSpans(t2))
        => WordsAt(r1, ShuffledSpans(t1)) = WordsAt(r2, ShuffledSpans(t2))

\* C26: within a call of scramble_text the words are scrambled from left to
\* right with one generator, which only the words that take a shuffle
\* advance; literal segments, words of up to three characters and words with
\* equal characters to shuffle leave it as it is.  So two calls with one
\* seed agree up to the end of every word up to which their texts agree, and
\* words come out the same when literals or short words are put in or
\* taken out around them.
C26_SharedGenerator ==
    /\ [][OnlyShufflesConsume]_vars
    /\ [](BothReturned =>
            /\ SameUpToWord(text, result, KeptCall.text, KeptCall.result)
            /\ SameShuffledWords(text, result, KeptCall.text, KeptCall.result))

\* "abab" and then "ab abab" with seed 27: "abab" is scrambled by the first
\* shuffle both times, the word "ab" before it takes nothing from the
\* generator.
C26_Witness ==
    /\ BothReturned
    /\ seed = 27
    /\ KeptCall.text = <<97, 98, 97, 98>>
    /\ text = <<97, 98, 32, 97, 98, 97, 98>>
    /\ shuffles = 1
    /\ KeptCall.result = <<97, 97, 98, 98>>
    /\ result = <<97, 98, 32, 97, 97, 98, 98>>

\* ------------------------------------------------------ the batch's log

BatchRunning == entry = "batch_evaluate" /\ pc \in {"batch", "returned"}

\* The results are those of *.txt files of the directory, in the ascending
\* order of the file names, each file once.
InFileOrder(rs) ==
    /\ \A i \in DOMAIN rs :
          /\ rs[i].source_label \in TxtFiles
          /\ rs[i] = ResultOf(rs[i].source_label)
    /\ \A i, j \in DOMAIN rs :
          i < j => NameBefore(rs[i].source_label, rs[j].source_label)

\* C27: with log_results=True batch_evaluate writes one row for each *.txt
\* file, in the ascending order of the file names and as soon as the file is
\* scored: while the loop runs the rows written are the results collected,
\* and when the call returns there is a row for every *.txt file and for no
\* other file, in the order of scoring and not in that of the list returned.
\* With log_results=False the file stays as it was.
C27_BatchLogsInFileOrder ==
    BatchRunning =>
        /\ log_results =>
              /\ InFileOrder(logged)
              /\ pc = "batch" => logged = results
              /\ pc = "returned" =>
                    /\ {logged[i].source_label : i \in DOMAIN logged} = TxtFiles
                    /\ Len(logged) = Len(returned)
              /\ RowsIn(IF results_file.exists THEN results_file.content ELSE <<>>)
                    = [i \in DOMAIN logged |-> to_markdown_row(logged[i])]
        /\ ~log_results => results_file = results_file0 /\ logged = <<>>

\* "a.txt", "b.txt" and "c.txt" were logged in that order and are returned
\* with "b.txt" first; "c.md" is in the directory too.
C27_Witness ==
    /\ BatchReturned
    /\ log_results
    /\ <<99, 46, 109, 100>> \in DOMAIN decoded_dir.content
    /\ Len(logged) = 3
    /\ logged[1].source_label = <<97>> \o TXT
    /\ logged[2].source_label = <<98>> \o TXT
    /\ returned[1].source_label = <<98>> \o TXT
    /\ returned # logged
    /\ NotesAt(results_file.content) # {}

\* ------------------------------------------------ the failing calls' log

\* The method is none of the four names, in whatever letter case.
UnknownMethod ==
    \A m \in FourNames :
        Len(m) # Len(method) \/ \E k \in DOMAIN m : ~SameButCase(m[k], method[k])

NothingLogged ==
    /\ results_file = results_file0
    /\ logged = <<>>

\* C28: a call with an unknown method leaves the results file as it was.
\* score_decoded_text, with or without a name, raises ValueError and has
\* logged nothing; batch_evaluate on a directory with a *.txt file has
\* collected and logged nothing before the first file, on which it raises
\* ValueError, also with log_results=True.
C28_FailedCallLogsNothing ==
    UnknownMethod =>
        /\ entry = "score_decoded_text" =>
              /\ pc = "raised"
              /\ raised = "ValueError"
              /\ NothingLogged
        /\ (entry = "batch_evaluate" /\ TxtFiles # {}) =>
              /\ pc \in {"batch", "raised"}
              /\ pc = "raised" => raised = "ValueError"
              /\ results = <<>>
              /\ NothingLogged
        /\ (entry = "batch_evaluate" /\ TxtFiles = {}) =>
              /\ pc \in {"batch", "returned"}
              /\ NothingLogged

\* batch_evaluate with log_results=True has raised on the first of two
\* files, and there is still no results file.
C28_Witness ==
    /\ UnknownMethod
    /\ entry = "batch_evaluate"
    /\ pc = "raised"
    /\ raised = "ValueError"
    /\ log_results
    /\ Cardinality(TxtFiles) = 2
    /\ Len(queue) = 2
    /\ ~results_file0.exists
    /\ ~results_file.exists

\* The two texts of the call are the same string once normalized.
NormalizedIdentical ==
    normalize(original, ignore_case, collapse_whitespace)
        = normalize(decoded, ignore_case, collapse_whitespace)

\* C29: no false perfect score. char_score is 1.0 exactly when the
\* normalized original and the normalized decoded text are the same string,
\* and so is the hybrid score, from compute_detailed_score and from
\* score_decoded_text alike; word_score and token_set_score alone can be 1.0
\* for texts that are not the same.
C29_NoFalsePerfectScore ==
    /\ DetailReturned =>
          /\ returned.char_score = <<1, 1>> <=> NormalizedIdentical
          /\ method = METHOD_hybrid =>
                (returned.score = <<1, 1>> <=> NormalizedIdentical)
    /\ (ScoreReturned /\ method \in {METHOD_hybrid, METHOD_char}) =>
          (returned = <<1, 1>> <=> NormalizedIdentical)

\* "a" against "a " without whitespace collapsing: the same words, so 1.0 on
\* words and on the set of tokens, but 2/3 on characters and 8/9 as hybrid.
C29_Witness ==
    /\ DetailReturned
    /\ method = METHOD_hybrid
    /\ ~NormalizedIdentical
    /\ original = <<97>>
    /\ decoded = <<97, 32>>
    /\ returned.word_score = <<1, 1>>
    /\ returned.token_set_score = <<1, 1>>
    /\ returned.char_score = <<2, 3>>
    /\ returned.score = <<8, 9>>

\* ------------------------------------------------------ the legacy module

\* word_salat has been called with the arguments of the package's call.
Compared == legacy.raised # "uncalled"

\* What src.scoring.score_decoded_text returned, as the float it is.
ReturnedDouble ==
    ScoreAsDouble(compute_detailed_score(original, decoded, ignore_case,
                      collapse_whitespace, method, UNNAMED, CUSTOM).value)

\* C30: word_salat.py and the package compute the same: scramble_text gives
\* the same text and leaves its generator in the same state for every text
\* and seed, and score_decoded_text returns the same float, or raises
\* ValueError in the same cases, for every pair of texts, flags and method.
C30_LegacyAgrees ==
    /\ (Compared /\ entry = "scramble_text" /\ seed # None) =>
          /\ legacy.value = result
          /\ legacy.rng = rng
    /\ (Compared /\ entry = "score_decoded_text") =>
          /\ legacy.raised = raised
          /\ raised = "none" => legacy.value = ReturnedDouble

\* The distance between two scores, on the grid.
Gap(a, b) ==
    IF LessMag(a.mag, b.mag)
    THEN SubFrom(b.mag, a.mag, GridLimbs, 0)
    ELSE SubFrom(a.mag, b.mag, GridLimbs, 0)

\* Less than 2^-50 apart.
Near(a, b) == LessMag(Gap(a, b), PowMag(GridLimbs * LimbBits - 2 - 50))

\* The two modules can differ: the method is hybrid and the interpreter's
\* sum() compensates.
CompensatedHybrid == Lower(method) = METHOD_hybrid /\ legacy.compensated

\* C30, amended: the two scramble_text agree for every text and seed, the
\* two score_decoded_text raise ValueError in the same cases and return the
\* same float for char, word and token_set, and for hybrid where sum() adds
\* from left to right; where sum() compensates, the two hybrid scores are
\* less than 2^-50 apart.
C30_LegacyAgreesUpToRounding ==
    /\ (Compared /\ entry = "scramble_text" /\ seed # None) =>
          /\ legacy.value = result
          /\ legacy.rng = rng
    /\ (Compared /\ entry = "score_decoded_text") =>
          /\ legacy.raised = raised
          /\ (raised = "none" /\ ~CompensatedHybrid) => legacy.value = ReturnedDouble
          /\ (raised = "none" /\ CompensatedHybrid) => Near(legacy.value, ReturnedDouble)

\* "a B" against "a c" as hybrid, where sum() compensates: 2/3, 1/2 and 1/3
\* add up to 1.5 there and to the double below 1.5 in the package.
C30_Witness ==
    /\ Compared
    /\ entry = "score_decoded_text"
    /\ original = <<97, 32, 66>>
    /\ decoded = <<97, 32, 99>>
    /\ method = METHOD_hybrid
    /\ legacy.compensated
    /\ legacy.value = DoubleOf(<<1, 2>>)
    /\ legacy.value # ReturnedDouble

====
